---- MODULE Spec2Model ----
(***************************************************************************)
(* Model of the lojack client library.                                     *)
(*                                                                         *)
(* AuthManager (src/lojack_clients/auth.py): the session fields, the       *)
(* coroutines login(), refresh() and get_token() cut at their transport    *)
(* awaits, and the synchronous clear() / import_auth_artifacts() and       *)
(* export_auth_artifacts(); AuthArtifacts.to_dict() / from_dict().         *)
(* AiohttpClient (src/lojack_clients/transport.py): request() and close(). *)
(* LoJackClient (src/lojack_api/api.py, src/lojack_clients/api.py): the    *)
(* authenticated operations, cut at get_token() and at the services        *)
(* request.                                                                *)
(*                                                                         *)
(* Optional values are sequences of length 0 or 1 (None == <<>>), so that  *)
(* an absent value compares with a present one.  Instants and durations    *)
(* are whole seconds.  Every instant is UTC-aware.                         *)
(***************************************************************************)
EXTENDS Integers, Sequences, FiniteSets, TLC

\* ------------------------------------------------------------------ bounds
\* The clock runs from 0 to MaxTime in steps of TickStep seconds.
MaxTime == 120
TickStep == 30
\* Number of tasks that may call the manager concurrently (SpecConc).
NumTasks == 2

\* ------------------------------------------------------- program constants
\* token_refresh_margin: int = 60
DefaultRefreshMargin == 60

\* ------------------------------------------------------------------ values
None == <<>>
Some(x) == <<x>>
Val(o) == o[1]

\* Python truthiness of an Optional[str]: None and "" are falsy.
Truthy(o) == o # None /\ Val(o) # ""

\* A JSON value found under an expiry key.
\*   null : key absent or null          int  : the integer n
\*   str  : a string that is no number and no ISO-8601 instant
\*   iso  : an ISO-8601 string denoting the instant n
\*   huge : a number too large for timedelta / datetime arithmetic
JNull == [t |-> "null", n |-> 0]
JInt(k) == [t |-> "int", n |-> k]
JStr == [t |-> "str", n |-> 0]
JIso(k) == [t |-> "iso", n |-> k]
JHuge == [t |-> "huge", n |-> 0]

\* Python truthiness of such a value (0 is falsy, every non-empty string is truthy).
JTruthy(j) == j.t \in {"str", "iso", "huge"} \/ (j.t = "int" /\ j.n # 0)

Opt(S) == {None} \cup {Some(x) : x \in S}

\* The expiry a response carries, as the pair <<expires_in, expires_at>>:
\* none, a relative one (30 s, 120 s, a non-number, an overflowing number),
\* an absolute one (the instant 150, an unparseable string), or both.
ExpiryForms ==
    {<<JNull, JNull>>, <<JInt(30), JNull>>, <<JInt(120), JNull>>,
     <<JStr, JNull>>, <<JHuge, JNull>>, <<JNull, JInt(150)>>,
     <<JNull, JStr>>, <<JInt(120), JInt(150)>>}

\* What the transport's request() can produce for an auth POST: a JSON
\* object, a non-object body (text), an AuthenticationError (HTTP 401) or
\* any other exception (ApiError, ConnectionError, TimeoutError, ...).
NoFields ==
    [token |-> None, refresh_token |-> None, user_id |-> None,
     expires_in |-> JNull, expires_at |-> JNull, error |-> None]

Mk(kind, f) ==
    [kind |-> kind, token |-> f.token, refresh_token |-> f.refresh_token,
     user_id |-> f.user_id, expires_in |-> f.expires_in,
     expires_at |-> f.expires_at, error |-> f.error]

\* JSON objects: without a token (with or without an error field), or with
\* the token tok and any mix of the optional fields.
DictResponses(tok, rtok, uid) ==
    { Mk("dict", [NoFields EXCEPT !.error = e]) : e \in Opt({"bad"}) }
      \cup
    { Mk("dict", [token |-> Some(tok), refresh_token |-> r, user_id |-> u,
                  expires_in |-> x[1], expires_at |-> x[2], error |-> e]) :
        r \in Opt({rtok}), u \in Opt({uid}), x \in ExpiryForms, e \in Opt({"bad"}) }

Failures ==
    {Mk("text", NoFields), Mk("AuthenticationError", NoFields),
     Mk("OtherError", NoFields)}

\* The server issues fresh values: a login answers with t1/r1/u1, a refresh
\* with t2/r2/u2, and imported artifacts carry t0/r0/u0.
LoginResponses == DictResponses("t1", "r1", "u1") \cup Failures
RefreshResponses == DictResponses("t2", "r2", "u2") \cup Failures

NoResponse == Mk("none", NoFields)

\* ------------------------------------------------------------------- state
VARIABLES
    username,       \* AuthManager._username        (Optional[str])
    password,       \* AuthManager._password        (Optional[str])
    access_token,   \* AuthManager._access_token    (Optional[str])
    refresh_token,  \* AuthManager._refresh_token   (Optional[str])
    expires_at,     \* AuthManager._expires_at      (Optional[datetime])
    user_id,        \* AuthManager._user_id         (Optional[str])
    now,            \* datetime.now(timezone.utc)
    tasks,          \* the tasks that call into the manager
    call,           \* per task: the manager operation it is running or ran last
    codec,          \* an AuthArtifacts value on its way through to_dict / from_dict
    transport,      \* AiohttpClient: its session and the request it served last
    client,         \* LoJackClient: the operation it is running or ran last
    payload,        \* a services payload and what the client made of it
    enrich,         \* the arguments and the result of _enrich_location_from_event
    device,         \* Device: its cache and the operation it is running or ran last
    lifecycle       \* LoJackClient._closed, its transports' close() calls, the callers

session == <<access_token, refresh_token, expires_at, user_id>>
vars == <<username, password, access_token, refresh_token, expires_at, user_id,
          now, tasks, call, codec, transport, client, payload, enrich, device,
          lifecycle>>
deviceSide == <<payload, enrich, device, lifecycle>>
authVars == <<username, password, access_token, refresh_token, expires_at,
              user_id, now, tasks, call>>

\* The components a specification leaves out stay as constructed.
NoCodec == [a |-> None, d |-> None, b |-> None]
NoExchange == [status |-> 0, json |-> FALSE, body |-> "", outcome |-> "none",
               error |-> None, error_status |-> None, error_body |-> None]
NoTransport == [session |-> "none", exchange |-> NoExchange]
NoClient == [op |-> "none", nothing |-> FALSE, device_id |-> None, pc |-> "idle",
             status |-> "none", value |-> "-", error |-> None,
             error_status |-> None, error_device |-> None, requests |-> <<>>,
             reply |-> [kind |-> "none", status |-> 0]]
NoPayload == [fn |-> "none"]
NoEnrich == [stage |-> "none"]
NoDevice == [op |-> "none"]
NoLifecycle == [closed |-> FALSE]
DeviceSideIdle ==
    /\ payload = NoPayload /\ enrich = NoEnrich /\ device = NoDevice
    /\ lifecycle = NoLifecycle
AuthOnly ==
    /\ codec' = codec /\ transport' = transport /\ client' = client
    /\ UNCHANGED deviceSide

\* A task's frame.  op: the coroutine called ("none" before the first call);
\* via: the branch get_token() took; posts: the transport requests the call
\* issued so far, in order; pc: "idle" when the call is over, else the await
\* it is suspended at; status/result: how it ended; resp: the transport
\* response it processed last.
NewCall(op) ==
    [op |-> op, via |-> "-", posts |-> <<>>, pc |-> "idle",
     status |-> "running", result |-> None, resp |-> NoResponse]

NoCall == [NewCall("none") EXCEPT !.status = "none"]

Return(c, tok) == [c EXCEPT !.pc = "idle", !.status = "returned", !.result = tok]
Raise(c, err) == [c EXCEPT !.pc = "idle", !.status = "raised", !.result = Some(err)]
Post(c, path) == [c EXCEPT !.pc = "await_" \o path, !.posts = Append(@, path)]

\* ------------------------------------------------------- AuthManager, pure
\* is_authenticated with the expiry instant itself still counted as valid
is_authenticated_inclusive(tok, exp, t) ==
    IF ~Truthy(tok) THEN FALSE
    ELSE IF exp # None THEN t <= Val(exp)
    ELSE TRUE

\* is_authenticated (property)
is_authenticated(tok, exp, t) ==
    IF ~Truthy(tok) THEN FALSE
    ELSE IF exp # None THEN t < Val(exp)
    ELSE TRUE

\* the expiry check with the margin applied twice
NeedsRefreshTwiceMargin(exp, t, margin) ==
    exp # None /\ t >= Val(exp) - 2 * margin

\* the expiry check without the margin
NeedsRefreshNoMargin(exp, t, margin) ==
    exp # None /\ t >= Val(exp)

\* get_token(): "if self._expires_at: ... if now >= (self._expires_at - margin)"
NeedsRefresh(exp, t, margin) ==
    exp # None /\ t >= Val(exp) - margin

\* login() that checks the username only
MissingCredentialsUsernameOnly(u, p) == ~Truthy(u)

\* login(): "if not self._username or not self._password"
MissingCredentials(u, p) == ~Truthy(u) \/ ~Truthy(p)

\* login()/refresh(): timedelta(seconds=int(expires_in)) added to now.
\* "ok": an instant; "error": ValueError/TypeError (caught by both callers);
\* "overflow": OverflowError, which neither caller catches.
RelativeExpiry(j, t) ==
    CASE j.t = "int" -> [r |-> "ok", at |-> t + j.n]
      [] j.t = "huge" -> [r |-> "overflow", at |-> 0]
      [] OTHER -> [r |-> "error", at |-> 0]

\* login() that lets a transport error other than a 401 through as it is
LoginFailureUnwrapped(data) ==
    CASE data.kind = "AuthenticationError" -> Some("AuthenticationError")
      [] data.kind = "OtherError" -> Some("OtherError")
      [] data.kind # "dict" -> Some("AuthenticationError")
      [] ~Truthy(data.token) -> Some("AuthenticationError")
      [] OTHER -> None

\* login(): the exception the response makes login() raise before it touches
\* the session, None if it goes on to store the token.
LoginFailure(data) ==
    CASE data.kind \in {"AuthenticationError", "OtherError"} ->
            \* except Exception as e: raise AuthenticationError(...) from e
            Some("AuthenticationError")
      [] data.kind # "dict" ->
            \* if not isinstance(data, dict): raise AuthenticationError
            Some("AuthenticationError")
      [] ~Truthy(data.token) ->
            \* if not token_value: raise AuthenticationError
            Some("AuthenticationError")
      [] OTHER -> None

\* login() that reads the absolute expiry first and the relative one only
\* when no absolute one is given
LoginExpiryAbsoluteFirst(data, exp, t) ==
    IF JTruthy(data.expires_at)
    THEN CASE data.expires_at.t \in {"int", "iso"} ->
                [expires_at |-> Some(data.expires_at.n), raises |-> None]
           [] data.expires_at.t = "str" ->
                [expires_at |-> None, raises |-> None]
           [] OTHER -> [expires_at |-> exp, raises |-> Some("OverflowError")]
    ELSE IF JTruthy(data.expires_in)
    THEN LET e == RelativeExpiry(data.expires_in, t)
         IN  CASE e.r = "ok" -> [expires_at |-> Some(e.at), raises |-> None]
               [] e.r = "error" -> [expires_at |-> None, raises |-> None]
               [] OTHER -> [expires_at |-> exp, raises |-> Some("OverflowError")]
    ELSE [expires_at |-> exp, raises |-> None]

\* login(): the expiry branch ("# Parse expiration"), given the expiry held
\* before.  An absolute expiry is read only when no relative one is truthy,
\* and self._expires_at is not assigned when neither is.
LoginExpiry(data, exp, t) ==
    IF JTruthy(data.expires_in)
    THEN LET e == RelativeExpiry(data.expires_in, t)
         IN  CASE e.r = "ok" -> [expires_at |-> Some(e.at), raises |-> None]
               [] e.r = "error" -> [expires_at |-> None, raises |-> None]
               [] OTHER -> [expires_at |-> exp, raises |-> Some("OverflowError")]
    ELSE IF JTruthy(data.expires_at)
    THEN CASE data.expires_at.t \in {"int", "iso"} ->
                [expires_at |-> Some(data.expires_at.n), raises |-> None]
           [] data.expires_at.t = "str" ->
                [expires_at |-> None, raises |-> None]
           [] OTHER -> [expires_at |-> exp, raises |-> Some("OverflowError")]
    ELSE [expires_at |-> exp, raises |-> None]

\* login() that drops the session when it fails
LoginResultClearsOnFailure(data, tok, rtok, exp, uid, t) ==
    IF LoginFailure(data) # None
    THEN [access_token |-> None, refresh_token |-> None, expires_at |-> None,
          user_id |-> None, raises |-> LoginFailure(data)]
    ELSE LET e == LoginExpiry(data, exp, t)
         IN  [access_token |-> data.token,
              refresh_token |-> data.refresh_token,
              user_id |-> data.user_id,
              expires_at |-> e.expires_at, raises |-> e.raises]

\* login() after its await: the session it leaves and what it raises
\* (raises = None: it returns the token).
LoginResult(data, tok, rtok, exp, uid, t) ==
    IF LoginFailure(data) # None
    THEN [access_token |-> tok, refresh_token |-> rtok, expires_at |-> exp,
          user_id |-> uid, raises |-> LoginFailure(data)]
    ELSE LET e == LoginExpiry(data, exp, t)
         IN  [access_token |-> data.token,
              refresh_token |-> data.refresh_token,
              user_id |-> data.user_id,
              expires_at |-> e.expires_at, raises |-> e.raises]

\* refresh() that re-logs in after every failed refresh POST
RefreshDispositionAlwaysLogin(data) ==
    CASE data.kind \in {"AuthenticationError", "OtherError"} -> "login"
      [] data.kind = "text" -> "login"
      [] ~Truthy(data.token) -> "login"
      [] OTHER -> "update"

\* refresh() that raises when the response is no object or has no token
RefreshDispositionRaisesOnBadResponse(data) ==
    CASE data.kind = "AuthenticationError" -> "login"
      [] data.kind = "OtherError" -> "raise"
      [] data.kind = "text" -> "raise"
      [] ~Truthy(data.token) -> "raise"
      [] OTHER -> "update"

\* refresh(): how the refresh POST's outcome is classified.
\*   "login"  : return await self.login()
\*   "raise"  : raise AuthenticationError
\*   "update" : update the session from the response
RefreshDisposition(data) ==
    CASE data.kind = "AuthenticationError" -> "login"
      [] data.kind = "OtherError" -> "raise"
      [] data.kind = "text" -> "login"
      [] ~Truthy(data.token) -> "login"
      [] OTHER -> "update"

\* refresh(): the expiry branch; only a relative expiry is read, and a
\* ValueError/TypeError leaves the expiry as it was ("pass").
RefreshExpiry(data, exp, t) ==
    IF JTruthy(data.expires_in)
    THEN LET e == RelativeExpiry(data.expires_in, t)
         IN  CASE e.r = "ok" -> [expires_at |-> Some(e.at), raises |-> None]
               [] e.r = "error" -> [expires_at |-> exp, raises |-> None]
               [] OTHER -> [expires_at |-> exp, raises |-> Some("OverflowError")]
    ELSE [expires_at |-> exp, raises |-> None]

\* refresh(): the refresh token kept ("if new_refresh := data.get(...)").
RefreshTokenAfter(data, rtok) ==
    IF Truthy(data.refresh_token) THEN data.refresh_token ELSE rtok

\* refresh() after a response that carries a token: the session it leaves.
RefreshResult(data, tok, rtok, exp, uid, t) ==
    LET e == RefreshExpiry(data, exp, t)
    IN  [access_token |-> data.token,
         refresh_token |-> RefreshTokenAfter(data, rtok),
         user_id |-> uid,
         expires_at |-> e.expires_at, raises |-> e.raises]

\* -------------------------------------------- AuthManager, up to each await
\* login() from its first line to the transport await.
LoginStart(c, u, p) ==
    IF MissingCredentials(u, p)
    THEN Raise(c, "AuthenticationError")
    ELSE Post(c, "login")

\* refresh() that posts whatever refresh token it has
RefreshStartAlwaysPosts(c, rtok, u, p) == Post(c, "refresh")

\* refresh() from its first line to the transport await.
RefreshStart(c, rtok, u, p) ==
    IF ~Truthy(rtok)
    THEN LoginStart(c, u, p)
    ELSE Post(c, "refresh")

\* get_token() that hands back whatever is cached when no token is held
GetTokenStartNoLogin(c, tok, rtok, exp, t, u, p) ==
    IF ~Truthy(tok)
    THEN Return([c EXCEPT !.via = "login"], tok)
    ELSE IF NeedsRefresh(exp, t, DefaultRefreshMargin)
    THEN RefreshStart([c EXCEPT !.via = "refresh"], rtok, u, p)
    ELSE Return([c EXCEPT !.via = "cache"], tok)

\* get_token() from its first line to the transport await or the return.
GetTokenStart(c, tok, rtok, exp, t, u, p) ==
    IF ~Truthy(tok)
    THEN LoginStart([c EXCEPT !.via = "login"], u, p)
    ELSE IF NeedsRefresh(exp, t, DefaultRefreshMargin)
    THEN RefreshStart([c EXCEPT !.via = "refresh"], rtok, u, p)
    ELSE Return([c EXCEPT !.via = "cache"], tok)

\* export_auth_artifacts() that leaves the user id out
export_auth_artifacts_without_user(tok, rtok, exp, uid) ==
    IF ~Truthy(tok)
    THEN None
    ELSE Some([access_token |-> tok, expires_at |-> exp,
               refresh_token |-> rtok, user_id |-> None])

\* export_auth_artifacts(): None when no access token is held, else the four
\* session fields as an AuthArtifacts value.
export_auth_artifacts(tok, rtok, exp, uid) ==
    IF ~Truthy(tok)
    THEN None
    ELSE Some([access_token |-> tok, expires_at |-> exp,
               refresh_token |-> rtok, user_id |-> uid])

\* import_auth_artifacts(artifacts): the session the manager holds afterwards.
import_auth_artifacts(artifacts) ==
    [access_token |-> artifacts.access_token,
     expires_at |-> artifacts.expires_at,
     refresh_token |-> artifacts.refresh_token,
     user_id |-> artifacts.user_id]

\* ------------------------------------------------------------------ actions
Credentials == {<<Some("user"), Some("pw")>>, <<None, Some("pw")>>,
                <<Some("user"), None>>, <<Some("user"), Some("")>>}

\* AuthManager.__init__
InitManager ==
    /\ \E cr \in Credentials : username = cr[1] /\ password = cr[2]
    /\ access_token = None
    /\ refresh_token = None
    /\ expires_at = None
    /\ user_id = None
    /\ now = 0

Init ==
    /\ InitManager
    /\ tasks = {1}
    /\ call = [p \in tasks |-> NoCall]
    /\ codec = NoCodec
    /\ transport = NoTransport
    /\ client = NoClient
    /\ DeviceSideIdle

InitConc ==
    /\ InitManager
    /\ tasks = 1..NumTasks
    /\ call = [p \in tasks |-> NoCall]
    /\ codec = NoCodec
    /\ transport = NoTransport
    /\ client = NoClient
    /\ DeviceSideIdle

Idle(p) == call[p].pc = "idle"

\* await auth.get_token(), run to its first suspension or to its end
CallGetToken(p) ==
    /\ Idle(p)
    /\ call' = [call EXCEPT ![p] =
                  GetTokenStart(NewCall("get_token"), access_token, refresh_token,
                                expires_at, now, username, password)]
    /\ UNCHANGED <<username, password, session, now, tasks>>

\* await auth.login()
CallLogin(p) ==
    /\ Idle(p)
    /\ call' = [call EXCEPT ![p] = LoginStart(NewCall("login"), username, password)]
    /\ UNCHANGED <<username, password, session, now, tasks>>

\* await auth.refresh()
CallRefresh(p) ==
    /\ Idle(p)
    /\ call' = [call EXCEPT ![p] =
                  RefreshStart(NewCall("refresh"), refresh_token, username, password)]
    /\ UNCHANGED <<username, password, session, now, tasks>>

\* login() resumes with the outcome of its POST /auth/login
LoginResume(p, data) ==
    /\ call[p].pc = "await_login"
    /\ LET res == LoginResult(data, access_token, refresh_token, expires_at,
                              user_id, now)
           c == [call[p] EXCEPT !.resp = data]
       IN  /\ access_token' = res.access_token
           /\ refresh_token' = res.refresh_token
           /\ expires_at' = res.expires_at
           /\ user_id' = res.user_id
           /\ call' = [call EXCEPT ![p] =
                         IF res.raises = None
                         THEN Return(c, res.access_token)
                         ELSE Raise(c, Val(res.raises))]
    /\ UNCHANGED <<username, password, now, tasks>>

\* refresh() resumes with the outcome of its POST /auth/refresh
RefreshResume(p, data) ==
    /\ call[p].pc = "await_refresh"
    /\ LET d == RefreshDisposition(data)
           c == [call[p] EXCEPT !.resp = data]
           res == RefreshResult(data, access_token, refresh_token, expires_at,
                                user_id, now)
       IN  CASE d = "login" ->
                  /\ call' = [call EXCEPT ![p] = LoginStart(c, username, password)]
                  /\ UNCHANGED session
             [] d = "raise" ->
                  /\ call' = [call EXCEPT ![p] = Raise(c, "AuthenticationError")]
                  /\ UNCHANGED session
             [] OTHER ->
                  /\ access_token' = res.access_token
                  /\ refresh_token' = res.refresh_token
                  /\ expires_at' = res.expires_at
                  /\ user_id' = res.user_id
                  /\ call' = [call EXCEPT ![p] =
                                IF res.raises = None
                                THEN Return(c, res.access_token)
                                ELSE Raise(c, Val(res.raises))]
    /\ UNCHANGED <<username, password, now, tasks>>

\* the task is cancelled while suspended in transport.request()
Cancel(p) ==
    /\ ~Idle(p)
    /\ call' = [call EXCEPT ![p] = Raise(@, "CancelledError")]
    /\ UNCHANGED <<username, password, session, now, tasks>>

\* clear() that forgets to drop the refresh token
ClearKeepsRefreshToken(p) ==
    /\ Idle(p)
    /\ access_token' = None
    /\ expires_at' = None
    /\ user_id' = None
    /\ call' = [call EXCEPT ![p] = Return(NewCall("clear"), None)]
    /\ UNCHANGED <<username, password, refresh_token, now, tasks>>

\* auth.clear()
Clear(p) ==
    /\ Idle(p)
    /\ access_token' = None
    /\ refresh_token' = None
    /\ expires_at' = None
    /\ user_id' = None
    /\ call' = [call EXCEPT ![p] = Return(NewCall("clear"), None)]
    /\ UNCHANGED <<username, password, now, tasks>>

\* the artifacts a caller may import
Artifacts ==
    [access_token : {Some("t0")}, expires_at : {None, Some(90)},
     refresh_token : Opt({"r0"}), user_id : {Some("u0")}]

\* auth.import_auth_artifacts(artifacts)
Import(p, artifacts) ==
    /\ Idle(p)
    /\ access_token' = artifacts.access_token
    /\ expires_at' = artifacts.expires_at
    /\ refresh_token' = artifacts.refresh_token
    /\ user_id' = artifacts.user_id
    /\ call' = [call EXCEPT ![p] = Return(NewCall("import"), None)]
    /\ UNCHANGED <<username, password, now, tasks>>

\* Session resumption: the caller exports the session and a fresh manager
\* (LoJackClient.from_auth) imports the artifacts at the same instant.
Resume(p) ==
    /\ Idle(p)
    /\ LET exported == export_auth_artifacts(access_token, refresh_token,
                                             expires_at, user_id)
       IN  /\ exported # None
           /\ LET s == import_auth_artifacts(Val(exported))
              IN  /\ access_token' = s.access_token
                  /\ expires_at' = s.expires_at
                  /\ refresh_token' = s.refresh_token
                  /\ user_id' = s.user_id
    /\ call' = [call EXCEPT ![p] = Return(NewCall("resume"), None)]
    /\ UNCHANGED <<username, password, now, tasks>>

\* time passes
Tick ==
    /\ now + TickStep <= MaxTime
    /\ now' = now + TickStep
    /\ UNCHANGED <<username, password, session, tasks, call>>

Next ==
    \/ \E p \in tasks : CallGetToken(p) /\ AuthOnly
    \/ \E p \in tasks : CallLogin(p) /\ AuthOnly
    \/ \E p \in tasks : CallRefresh(p) /\ AuthOnly
    \/ \E p \in tasks : \E data \in LoginResponses : LoginResume(p, data) /\ AuthOnly
    \/ \E p \in tasks : \E data \in RefreshResponses : RefreshResume(p, data) /\ AuthOnly
    \/ \E p \in tasks : Cancel(p) /\ AuthOnly
    \/ \E p \in tasks : Clear(p) /\ AuthOnly
    \/ \E p \in tasks : \E a \in Artifacts : Import(p, a) /\ AuthOnly
    \/ \E p \in tasks : Resume(p) /\ AuthOnly
    \/ Tick /\ AuthOnly

\* One task: every call runs to its end before the next operation starts.
Spec == Init /\ [][Next]_vars

\* Several tasks share the manager and call get_token(); they interleave at
\* the transport awaits.  The responses are the ones that keep a session
\* going: a token with or without a refresh token, a relative expiry or
\* none, and the failures.
ConcExpiryForms == {<<JNull, JNull>>, <<JInt(30), JNull>>, <<JInt(120), JNull>>}

ConcResponses(S) ==
    {d \in S : /\ d.error = None
               /\ d.user_id = None
               /\ <<d.expires_in, d.expires_at>> \in ConcExpiryForms}

NextConc ==
    \/ \E p \in tasks : CallGetToken(p) /\ AuthOnly
    \/ \E p \in tasks : \E data \in ConcResponses(LoginResponses) :
            LoginResume(p, data) /\ AuthOnly
    \/ \E p \in tasks : \E data \in ConcResponses(RefreshResponses) :
            RefreshResume(p, data) /\ AuthOnly
    \/ \E p \in tasks : Cancel(p) /\ AuthOnly
    \/ Tick /\ AuthOnly

SpecConc == InitConc /\ [][NextConc]_vars

\* ---------------------------------------------- AuthArtifacts serialization
\* A dictionary is a record of optional entries, None for a missing key.
\* Its expires_at entry is a JSON value: JIso(k) is the ISO-8601 text of the
\* instant k, JStr a text that is no ISO-8601 date, JInt a number, and
\* JDatetime(k) a datetime object put there by the caller.
JDatetime(k) == [t |-> "datetime", n |-> k]

\* datetime.isoformat() and datetime.fromisoformat(); the latter raises
\* ValueError on any other text.
isoformat(k) == JIso(k)
fromisoformat(j) ==
    IF j.t = "iso"
    THEN [r |-> "ok", at |-> j.n]
    ELSE [r |-> "ValueError", at |-> 0]

\* to_dict() that takes the epoch for a missing expiry
to_dict_epoch_falsy(a) ==
    [access_token |-> a.access_token,
     expires_at |-> IF a.expires_at # None /\ Val(a.expires_at) # 0
                    THEN Some(isoformat(Val(a.expires_at))) ELSE None,
     refresh_token |-> IF Truthy(a.refresh_token) THEN a.refresh_token ELSE None,
     user_id |-> IF Truthy(a.user_id) THEN a.user_id ELSE None]

\* AuthArtifacts.to_dict(): access_token always; the others only when truthy
\* (a datetime is always truthy, an empty string is not).
to_dict(a) ==
    [access_token |-> a.access_token,
     expires_at |-> IF a.expires_at # None
                    THEN Some(isoformat(Val(a.expires_at))) ELSE None,
     refresh_token |-> IF Truthy(a.refresh_token) THEN a.refresh_token ELSE None,
     user_id |-> IF Truthy(a.user_id) THEN a.user_id ELSE None]

\* from_dict(): "if exp := data.get('expires_at')": a text is parsed, the
\* ValueError swallowed; a datetime is taken as it is; anything else (a
\* number, a missing key) gives no expiry.
StoredExpiry(exp) ==
    IF exp = None \/ ~(JTruthy(Val(exp)) \/ Val(exp).t = "datetime")
    THEN None
    ELSE CASE Val(exp).t \in {"iso", "str"} ->
                LET e == fromisoformat(Val(exp))
                IN  IF e.r = "ok" THEN Some(e.at) ELSE None
           [] Val(exp).t = "datetime" -> Some(Val(exp).n)
           [] OTHER -> None

\* AuthArtifacts.from_dict(data): data["access_token"] raises KeyError when
\* the key is missing; the other keys are read with get().
from_dict(data) ==
    IF data.access_token = None
    THEN [raises |-> Some("KeyError"), artifacts |-> None]
    ELSE [raises |-> None,
          artifacts |-> Some([access_token |-> data.access_token,
                              expires_at |-> StoredExpiry(data.expires_at),
                              refresh_token |-> data.refresh_token,
                              user_id |-> data.user_id])]

\* The AuthArtifacts values and the stored dictionaries the conversions are
\* applied to.
ArtifactValues ==
    [access_token : {Some("t0"), Some("")},
     expires_at : {None, Some(0), Some(90)},
     refresh_token : {None, Some(""), Some("r0")},
     user_id : {None, Some(""), Some("u0")}]

StoredDicts ==
    [access_token : {None, Some("t0")},
     expires_at : {None, Some(JStr), Some(JIso(90)), Some(JDatetime(90)),
                   Some(JInt(90))},
     refresh_token : Opt({"r0"}),
     user_id : Opt({"u0"})]

\* No manager takes part.
AuthParked ==
    /\ username = None
    /\ password = None
    /\ access_token = None
    /\ refresh_token = None
    /\ expires_at = None
    /\ user_id = None
    /\ now = 0
    /\ tasks = {}
    /\ call = [p \in tasks |-> NoCall]

InitCodec ==
    /\ \/ \E a \in ArtifactValues : codec = [NoCodec EXCEPT !.a = Some(a)]
       \/ \E d \in StoredDicts : codec = [NoCodec EXCEPT !.d = Some(d)]
    /\ AuthParked
    /\ transport = NoTransport
    /\ client = NoClient
    /\ DeviceSideIdle

\* d = a.to_dict()
ToDict ==
    /\ codec.a # None
    /\ codec.d = None
    /\ codec' = [codec EXCEPT !.d = Some(to_dict(Val(codec.a)))]
    /\ UNCHANGED <<authVars, transport, client, deviceSide>>

\* b = AuthArtifacts.from_dict(d)
FromDict ==
    /\ codec.d # None
    /\ codec.b = None
    /\ codec' = [codec EXCEPT !.b = Some(from_dict(Val(codec.d)))]
    /\ UNCHANGED <<authVars, transport, client, deviceSide>>

NextCodec ==
    \/ ToDict
    \/ FromDict

SpecCodec == InitCodec /\ [][NextCodec]_vars

\* ------------------------------------------------------------ AiohttpClient
\* What the server can answer: a status, a Content-Type that is JSON or not,
\* and a body.
Statuses == {200, 204, 304, 400, 401, 403, 404, 429, 500, 503}
Replies == [status : Statuses, json : BOOLEAN, body : {"", "{}", "oops"}]

\* What session.request() raises when no reply arrives.
ConnectionFailures == {"ClientConnectorError", "TimeoutError"}

\* aiohttp's resp.raise_for_status(): raises ClientResponseError for a
\* status of 400 and above.
raise_for_status(status) == status >= 400

\* _get_session(): a missing or closed session is replaced by a new one.
get_session(sess) == IF sess \in {"none", "closed"} THEN "open" ELSE sess

\* request(), given the reply: ClientResponseError (which carries the status
\* but not the body) from raise_for_status(), else the parsed JSON or the
\* text.
request(reply) ==
    [status |-> reply.status, json |-> reply.json, body |-> reply.body,
     outcome |-> IF raise_for_status(reply.status) THEN "raised"
                 ELSE IF reply.json THEN "json" ELSE "text",
     error |-> IF raise_for_status(reply.status)
               THEN Some("ClientResponseError") ELSE None,
     error_status |-> IF raise_for_status(reply.status)
                      THEN Some(reply.status) ELSE None,
     error_body |-> None]

\* AiohttpClient.__init__: no session, or one handed in (open or closed).
InitTransport ==
    /\ \E sess \in {"none", "open", "closed"} :
          transport = [NoTransport EXCEPT !.session = sess]
    /\ AuthParked
    /\ codec = NoCodec
    /\ client = NoClient
    /\ DeviceSideIdle

\* await transport.request(...), answered with reply
Request(reply) ==
    /\ transport' = [session |-> get_session(transport.session),
                     exchange |-> request(reply)]
    /\ UNCHANGED <<authVars, codec, client, deviceSide>>

\* await transport.request(...), no reply: the aiohttp exception passes
\* through request() as it is
RequestFails(err) ==
    /\ transport' = [session |-> get_session(transport.session),
                     exchange |-> [NoExchange EXCEPT !.outcome = "raised",
                                                     !.error = Some(err)]]
    /\ UNCHANGED <<authVars, codec, client, deviceSide>>

\* await transport.close(): an open session is closed and dropped
Close ==
    /\ transport' = [transport EXCEPT
                       !.session = IF @ = "open" THEN "none" ELSE @]
    /\ UNCHANGED <<authVars, codec, client, deviceSide>>

NextTransport ==
    \/ \E reply \in Replies : Request(reply)
    \/ \E err \in ConnectionFailures : RequestFails(err)
    \/ Close

SpecTransport == InitTransport /\ [][NextTransport]_vars

\* ------------------------------------------------------------- LoJackClient
\* The authenticated operations, one of each shape of reply handling, and
\* the ones that may have nothing to send: update_asset / update_geofence
\* without a field, get_repair_orders without vin and asset_id.
ClientOps ==
    {"list_devices", "get_device", "get_locations", "get_current_location",
     "send_command", "update_asset", "update_geofence", "delete_geofence",
     "get_geofence", "get_maintenance_schedule", "get_repair_orders"}
\* The operations that take a device_id, and the ids asked for.
WithDeviceId == ClientOps \ {"list_devices", "get_maintenance_schedule",
                             "get_repair_orders"}
DeviceIds == {"d1", "d2"}
CanHaveNothing == {"update_asset", "update_geofence", "get_repair_orders"}

\* What the services transport's request() can produce: a JSON object, a
\* non-object body, an ApiError with its status, an AuthenticationError.
ServicesReplies ==
    {[kind |-> "dict", status |-> 200], [kind |-> "text", status |-> 200],
     [kind |-> "ApiError", status |-> 404], [kind |-> "ApiError", status |-> 500],
     [kind |-> "AuthenticationError", status |-> 401]}

\* _get_headers(): after get_token() returned, get_auth_headers() puts the
\* access token the manager holds into the headers.
get_headers(tok) == tok

\* The operation after "headers = await self._get_headers()", sending its
\* request even when the payload is empty
AfterGetTokenAlwaysSends(cl, frame, tok) ==
    IF frame.pc # "idle"
    THEN [cl EXCEPT !.pc = "await_get_token"]
    ELSE IF frame.status = "raised"
    THEN [cl EXCEPT !.pc = "idle", !.status = "raised", !.error = frame.result]
    ELSE [cl EXCEPT !.pc = "await_services",
                    !.requests = Append(@, get_headers(tok))]

\* The operation after "headers = await self._get_headers()", run on even
\* when get_token() raised
AfterGetTokenIgnoringFailure(cl, frame, tok) ==
    IF frame.pc # "idle"
    THEN [cl EXCEPT !.pc = "await_get_token"]
    ELSE IF cl.nothing
    THEN [cl EXCEPT !.pc = "idle", !.status = "returned", !.value = "True"]
    ELSE [cl EXCEPT !.pc = "await_services",
                    !.requests = Append(@, get_headers(tok))]

\* The operation after "headers = await self._get_headers()", given the
\* get_token() frame and the token the manager holds: it stays suspended
\* while get_token() is, ends with get_token()'s exception, returns True
\* when there is nothing to send, and else issues its services request.
AfterGetToken(cl, frame, tok) ==
    IF frame.pc # "idle"
    THEN [cl EXCEPT !.pc = "await_get_token"]
    ELSE IF frame.status = "raised"
    THEN [cl EXCEPT !.pc = "idle", !.status = "raised", !.error = frame.result]
    ELSE IF cl.nothing
    THEN [cl EXCEPT !.pc = "idle", !.status = "returned", !.value = "True"]
    ELSE [cl EXCEPT !.pc = "await_services",
                    !.requests = Append(@, get_headers(tok))]

\* What an operation returns for a reply that is no JSON object (true of a
\* 404 turned into "not found" as well): None, an empty list, or True for
\* the operations that do not read the reply.
EmptyValue(op) ==
    CASE op \in {"get_current_location", "get_geofence",
                 "get_maintenance_schedule"} -> "None"
      [] op \in {"list_devices", "get_locations", "get_repair_orders"} -> "[]"
      [] OTHER -> "True"

\* Reply handling in which every ApiError of a single-entity fetch counts as
\* "not found"
ReplyOutcomeAnyApiError(op, dev, reply) ==
    LET returned(v) == [status |-> "returned", value |-> v, error |-> None,
                        error_status |-> None, error_device |-> None]
        raised(e, st, d) == [status |-> "raised", value |-> "-", error |-> Some(e),
                             error_status |-> st, error_device |-> d]
    IN  CASE reply.kind = "AuthenticationError" ->
                raised("AuthenticationError", None, None)
          [] reply.kind = "ApiError" /\ op = "get_device" ->
                raised("DeviceNotFoundError", None, dev)
          [] reply.kind = "ApiError"
                 /\ op \in {"get_current_location", "get_geofence",
                            "get_maintenance_schedule", "get_repair_orders"} ->
                returned(EmptyValue(op))
          [] reply.kind = "ApiError" -> raised("ApiError", Some(reply.status), None)
          [] reply.kind = "text" /\ op = "get_device" ->
                raised("DeviceNotFoundError", None, dev)
          [] reply.kind = "text" -> returned(EmptyValue(op))
          [] op \in {"update_asset", "update_geofence", "delete_geofence"} ->
                returned("True")
          [] OTHER -> returned("parsed")

\* How the operation ends on the reply to its services request: the value it
\* returns, or the exception it raises with the status (ApiError) or the
\* device id (DeviceNotFoundError) the exception carries.
ReplyOutcome(op, dev, reply) ==
    LET returned(v) == [status |-> "returned", value |-> v, error |-> None,
                        error_status |-> None, error_device |-> None]
        raised(e, st, d) == [status |-> "raised", value |-> "-", error |-> Some(e),
                             error_status |-> st, error_device |-> d]
    IN  CASE reply.kind = "AuthenticationError" ->
                raised("AuthenticationError", None, None)
          [] reply.kind = "ApiError" /\ op = "get_device" ->
                \* except ApiError as e: if e.status_code == 404: raise
                \* DeviceNotFoundError(device_id) from e; raise
                IF reply.status = 404
                THEN raised("DeviceNotFoundError", None, dev)
                ELSE raised("ApiError", Some(reply.status), None)
          [] reply.kind = "ApiError" /\ op = "get_current_location" ->
                \* except ApiError: return None
                returned("None")
          [] reply.kind = "ApiError"
                 /\ op \in {"get_geofence", "get_maintenance_schedule",
                            "get_repair_orders"} ->
                \* except ApiError as e: if e.status_code == 404: return
                \* None (or []); raise
                IF reply.status = 404
                THEN returned(EmptyValue(op))
                ELSE raised("ApiError", Some(reply.status), None)
          [] reply.kind = "ApiError" -> raised("ApiError", Some(reply.status), None)
          [] reply.kind = "text" /\ op = "get_device" ->
                raised("DeviceNotFoundError", None, dev)
          [] reply.kind = "text" -> returned(EmptyValue(op))
          [] op \in {"update_asset", "update_geofence", "delete_geofence"} ->
                returned("True")
          [] OTHER -> returned("parsed")

\* await client.<op>(...): up to its first suspension or to its end
ClientCall(p, op, nothing) ==
    /\ client.pc = "idle"
    /\ Idle(p)
    /\ nothing => op \in CanHaveNothing
    /\ \E dev \in Opt(DeviceIds) :
          /\ dev # None <=> op \in WithDeviceId
          /\ LET cl == [NoClient EXCEPT !.op = op, !.nothing = nothing,
                                        !.device_id = dev, !.status = "running"]
             IN  IF op = "get_repair_orders" /\ nothing
                 THEN \* if not vin and not asset_id: return []
                      /\ client' = [cl EXCEPT !.status = "returned", !.value = "[]"]
                      /\ call' = call
                 ELSE /\ call' = [call EXCEPT ![p] =
                                    GetTokenStart(NewCall("get_token"), access_token,
                                                  refresh_token, expires_at, now,
                                                  username, password)]
                      /\ client' = AfterGetToken(cl, call'[p], access_token)
    /\ UNCHANGED <<username, password, session, now, tasks, codec, transport, deviceSide>>

\* get_token()'s login POST is answered and the operation runs on
ClientLoginResume(p, data) ==
    /\ client.pc = "await_get_token"
    /\ LoginResume(p, data)
    /\ client' = AfterGetToken(client, call'[p], access_token')
    /\ UNCHANGED <<codec, transport, deviceSide>>

\* get_token()'s refresh POST is answered and the operation runs on
ClientRefreshResume(p, data) ==
    /\ client.pc = "await_get_token"
    /\ RefreshResume(p, data)
    /\ client' = AfterGetToken(client, call'[p], access_token')
    /\ UNCHANGED <<codec, transport, deviceSide>>

\* the services request is answered
ServicesReply(reply) ==
    /\ client.pc = "await_services"
    /\ LET o == ReplyOutcome(client.op, client.device_id, reply)
       IN  client' = [client EXCEPT !.pc = "idle", !.status = o.status,
                                    !.reply = reply,
                                    !.value = o.value, !.error = o.error,
                                    !.error_status = o.error_status,
                                    !.error_device = o.error_device]
    /\ UNCHANGED <<authVars, codec, transport, deviceSide>>

NextClient ==
    \/ \E p \in tasks : \E op \in ClientOps : \E nothing \in BOOLEAN :
            ClientCall(p, op, nothing)
    \/ \E p \in tasks : \E data \in ConcResponses(LoginResponses) :
            ClientLoginResume(p, data)
    \/ \E p \in tasks : \E data \in ConcResponses(RefreshResponses) :
            ClientRefreshResume(p, data)
    \/ \E reply \in ServicesReplies : ServicesReply(reply)
    \/ Tick /\ AuthOnly

\* One task uses a client built with LoJackClient(username, password).
SpecClient == Init /\ [][NextClient]_vars

\* --------------------------------------------- Device / Vehicle wrapping
\* An item of a services payload, as far as the wrapping reads it: its
\* top-level "vin", its "attributes" entry (missing, null, a text, an object
\* without or with a "vin") and its "type".
Items ==
    [vin : {None, Some(""), Some("V1")},
     attributes : {"missing", "null", "text", "object", "object_with_vin"},
     type : {"none", "tracker", "vehicle"}]

\* get_device() reads the item from under "content" or "asset" when the
\* reply has one, else takes the reply itself.
Wrappings == {"bare", "content", "asset"}

\* attrs = item.get("attributes", {}); attrs.get("vin"): AttributeError when
\* the entry is present and no object.
AttrsVin(item) ==
    CASE item.attributes \in {"null", "text"} -> "AttributeError"
      [] item.attributes = "object_with_vin" -> "vin"
      [] OTHER -> "none"

\* lojack_api list_devices() / get_device():
\* "if attrs.get('vin') or item.get('vin')"
WrapAs(item) ==
    CASE AttrsVin(item) = "AttributeError" -> "AttributeError"
      [] AttrsVin(item) = "vin" \/ Truthy(item.vin) -> "Vehicle"
      [] OTHER -> "Device"

\* lojack_clients list_devices():
\* "if item.get('vin') or item.get('type') == 'vehicle'"
LegacyWrapAs(item) ==
    IF Truthy(item.vin) \/ item.type = "vehicle" THEN "Vehicle" ELSE "Device"

InitPayload ==
    /\ \E item \in Items :
          payload = [fn |-> "wrap", item |-> item, listed |-> "-", got |-> "-",
                     wrapping |-> "-", legacy |-> "-"]
    /\ AuthParked
    /\ codec = NoCodec
    /\ transport = NoTransport
    /\ client = NoClient
    /\ enrich = NoEnrich
    /\ device = NoDevice
    /\ lifecycle = NoLifecycle

\* lojack_api list_devices() wraps the item
ListDevicesWraps ==
    /\ payload.listed = "-"
    /\ payload' = [payload EXCEPT !.listed = WrapAs(payload.item)]
    /\ UNCHANGED <<authVars, codec, transport, client, enrich, device, lifecycle>>

\* lojack_api get_device() wraps the item it finds in the reply
GetDeviceWraps(wrapping) ==
    /\ payload.got = "-"
    /\ payload' = [payload EXCEPT !.got = WrapAs(payload.item),
                                  !.wrapping = wrapping]
    /\ UNCHANGED <<authVars, codec, transport, client, enrich, device, lifecycle>>

\* lojack_clients list_devices() wraps the item
LegacyListDevicesWraps ==
    /\ payload.legacy = "-"
    /\ payload' = [payload EXCEPT !.legacy = LegacyWrapAs(payload.item)]
    /\ UNCHANGED <<authVars, codec, transport, client, enrich, device, lifecycle>>

NextPayload ==
    \/ ListDevicesWraps
    \/ \E w \in Wrappings : GetDeviceWraps(w)
    \/ LegacyListDevicesWraps

SpecPayload == InitPayload /\ [][NextPayload]_vars

\* ------------------------------------------------ list_devices (lojack_api)
\* The reply to GET /assets as list_devices() reads it: a bare list, an
\* object holding the list under "content" or "assets", or something that
\* is neither (a text).  An entry of the list is an object (an item as
\* above) or something else.
MaxItems == 3
ListedItems ==
    {[vin |-> None, attributes |-> "missing", type |-> "tracker"],
     [vin |-> None, attributes |-> "object_with_vin", type |-> "vehicle"],
     [vin |-> Some("V1"), attributes |-> "object", type |-> "none"],
     [vin |-> None, attributes |-> "null", type |-> "tracker"],
     [vin |-> None, attributes |-> "text", type |-> "tracker"]}
ListEntries ==
    {[object |-> FALSE,
      item |-> [vin |-> None, attributes |-> "missing", type |-> "none"]]}
      \cup {[object |-> TRUE, item |-> it] : it \in ListedItems}
ItemLists ==
    UNION {[1 .. n -> ListEntries] : n \in 0 .. MaxItems}
ReplyShapes == {"list", "content", "assets", "text"}

\* "if isinstance(data, dict): items = data.get('content') or ... or []
\*  elif isinstance(data, list): items = data"
ItemsOf(shape, entries) == IF shape = "text" THEN <<>> ELSE entries

\* The loop of list_devices() from entry i on, devices being the wrappers
\* appended so far (each with the position of its item in the reply): an
\* entry that is no object is skipped, an object is wrapped, and an
\* exception of the wrapping leaves the loop and list_devices().
RECURSIVE WrapItems(_, _, _)
WrapItems(items, i, devices) ==
    IF i > Len(items)
    THEN [raises |-> None, devices |-> devices]
    ELSE IF ~items[i].object
    THEN WrapItems(items, i + 1, devices)
    ELSE LET w == WrapAs(items[i].item)
         IN  IF w = "AttributeError"
             THEN [raises |-> Some("AttributeError"), devices |-> <<>>]
             ELSE WrapItems(items, i + 1,
                            Append(devices, [kind |-> w, of |-> i]))

InitListing ==
    /\ \E shape \in ReplyShapes : \E entries \in ItemLists :
          payload = [fn |-> "list_devices", shape |-> shape,
                     entries |-> entries, status |-> "none",
                     devices |-> <<>>, error |-> None]
    /\ AuthParked
    /\ codec = NoCodec
    /\ transport = NoTransport
    /\ client = NoClient
    /\ enrich = NoEnrich
    /\ device = NoDevice
    /\ lifecycle = NoLifecycle

\* list_devices() from the reply of its request to its end
ListDevices ==
    /\ payload.status = "none"
    /\ LET out == WrapItems(ItemsOf(payload.shape, payload.entries), 1, <<>>)
       IN  payload' =
             [payload EXCEPT
                !.status = IF out.raises = None THEN "returned" ELSE "raised",
                !.devices = out.devices,
                !.error = out.raises]
    /\ UNCHANGED <<authVars, codec, transport, client, enrich, device, lifecycle>>

NextListing ==
    \/ ListDevices

SpecListing == InitListing /\ [][NextListing]_vars

\* ---------------------------------------- get_current_location (lojack_api)
\* The reply to GET /assets/{id} as get_current_location() reads it.  kind:
\* a JSON object, another body, or the exception request() raised
\* ("TokenError": get_token() raised AuthenticationError before the
\* request).  For an object: its lastLocation entry (missing or null, an
\* empty object, an object), the timestamp and speed Location.from_api
\* parsed out of that entry, and the asset's own locationLastReported and
\* speed entries.
JNumStr(k) == [t |-> "numstr", n |-> k]
AssetReplyKinds ==
    {"dict", "text", "ApiError", "AuthenticationError", "ConnectionError",
     "TokenError"}
ParsedLocations == [timestamp : {None, Some(10)}, speed : {None, Some(0), Some(5)}]
NoAssetFields ==
    [last_location |-> "missing", parsed |-> [timestamp |-> None, speed |-> None],
     reported |-> JNull, speed |-> JNull]
AssetReplies ==
    {[kind |-> k] @@ NoAssetFields : k \in AssetReplyKinds \ {"dict"}}
      \cup
    {[kind |-> "dict", last_location |-> l, parsed |-> loc, reported |-> ts,
      speed |-> sp] :
        l \in {"missing", "empty", "object"}, loc \in ParsedLocations,
        ts \in {JNull, JIso(20), JStr},
        sp \in {JNull, JInt(0), JInt(7), JNumStr(7), JStr}}

\* _parse_timestamp(ts): the instant a timestamp text or number denotes,
\* None for anything else; it never raises.
parse_timestamp(j) == IF j.t \in {"iso", "int"} THEN Some(j.n) ELSE None

\* "try: loc.speed = float(speed) / except (ValueError, TypeError): pass":
\* the number, None when float() raises
SpeedOf(j) == IF j.t \in {"int", "numstr"} THEN Some(j.n) ELSE None

\* get_current_location() that answers None to every exception
get_current_location_swallowing(reply) ==
    CASE reply.kind # "dict" ->
            [status |-> "returned", value |-> None, error |-> None]
      [] reply.last_location # "object" ->
            [status |-> "returned", value |-> None, error |-> None]
      [] OTHER ->
            [status |-> "returned", error |-> None,
             value |-> Some(
               [timestamp |-> IF reply.parsed.timestamp = None
                                  /\ JTruthy(reply.reported)
                              THEN parse_timestamp(reply.reported)
                              ELSE reply.parsed.timestamp,
                speed |-> IF reply.parsed.speed = None /\ reply.speed # JNull
                             /\ SpeedOf(reply.speed) # None
                          THEN SpeedOf(reply.speed)
                          ELSE reply.parsed.speed])]

\* get_current_location(device_id), given how its request ended
get_current_location(reply) ==
    CASE reply.kind = "TokenError" ->
            \* headers = await self._get_headers()
            [status |-> "raised", value |-> None,
             error |-> Some("AuthenticationError")]
      [] reply.kind = "ApiError" ->
            \* except ApiError: return None
            [status |-> "returned", value |-> None, error |-> None]
      [] reply.kind \in {"AuthenticationError", "ConnectionError"} ->
            [status |-> "raised", value |-> None, error |-> Some(reply.kind)]
      [] reply.kind # "dict" ->
            \* if not isinstance(data, dict): return None
            [status |-> "returned", value |-> None, error |-> None]
      [] reply.last_location # "object" ->
            \* if not last_location: return None
            [status |-> "returned", value |-> None, error |-> None]
      [] OTHER ->
            [status |-> "returned", error |-> None,
             value |-> Some(
               [timestamp |-> IF reply.parsed.timestamp = None
                                  /\ JTruthy(reply.reported)
                              THEN parse_timestamp(reply.reported)
                              ELSE reply.parsed.timestamp,
                speed |-> IF reply.parsed.speed = None /\ reply.speed # JNull
                             /\ SpeedOf(reply.speed) # None
                          THEN SpeedOf(reply.speed)
                          ELSE reply.parsed.speed])]

InitAsset ==
    /\ \E reply \in AssetReplies :
          payload = [fn |-> "get_current_location", reply |-> reply,
                     status |-> "none", value |-> None, error |-> None]
    /\ AuthParked
    /\ codec = NoCodec
    /\ transport = NoTransport
    /\ client = NoClient
    /\ enrich = NoEnrich
    /\ device = NoDevice
    /\ lifecycle = NoLifecycle

\* get_current_location() runs to its end
GetCurrentLocationEnds ==
    /\ payload.status = "none"
    /\ LET out == get_current_location(payload.reply)
       IN  payload' = [payload EXCEPT !.status = out.status,
                                      !.value = out.value,
                                      !.error = out.error]
    /\ UNCHANGED <<authVars, codec, transport, client, enrich, device, lifecycle>>

NextAsset ==
    \/ GetCurrentLocationEnds

SpecAsset == InitAsset /\ [][NextAsset]_vars

\* ------------------------------------------- _enrich_location_from_event
\* A Location, as far as the enrichment goes: the coordinates (latitude
\* stands for the fields the function never reads), the timestamp and the
\* eleven telemetry fields, each absent or present.
EnrichFields ==
    {"speed", "heading", "odometer", "battery_voltage", "engine_hours",
     "distance_driven", "signal_strength", "gps_fix_quality", "event_type",
     "event_id", "address"}

\* The telemetry of a Location in which exactly the fields of S are present,
\* with the value v.
Telemetry(S, v) == [f \in EnrichFields |-> IF f \in S THEN Some(v) ELSE None]

\* The sets of present fields tried: none, one, all but one, all.
Presences ==
    {{}, EnrichFields}
      \cup {{f} : f \in EnrichFields}
      \cup {EnrichFields \ {f} : f \in EnrichFields}

\* The snapshot's present values are 0 (a value that is present and falsy),
\* the event's are 7; the timestamps are absent, 10 or 20.
Timestamps == {None, Some(10), Some(20)}
BaseLocations ==
    {[latitude |-> lat, timestamp |-> ts, tel |-> Telemetry(S, 0)] :
        lat \in {None, Some(1)}, ts \in Timestamps, S \in Presences}
EventLocations ==
    {[latitude |-> Some(2), timestamp |-> ts, tel |-> Telemetry(S, 7)] :
        ts \in Timestamps, S \in Presences}

\* One field, copied whenever the location's value is falsy
EnrichFieldIfFalsy(b, e) == IF (b = None \/ b = Some(0)) /\ e # None THEN e ELSE b

\* "if location.X is None and event.X is not None: location.X = event.X"
EnrichField(b, e) == IF b = None /\ e # None THEN e ELSE b

\* The timestamp, taken from the event whenever the event has one
EnrichTimestampAlways(b, e) == IF e # None THEN e ELSE b

\* "if event.timestamp is not None: if location.timestamp is None or
\* event.timestamp > location.timestamp: location.timestamp = event.timestamp"
EnrichTimestamp(b, e) ==
    IF e # None /\ (b = None \/ Val(e) > Val(b)) THEN e ELSE b

\* The enrichment that also takes the event's coordinates
enrich_location_from_event_with_coordinates(location, event) ==
    [location EXCEPT
        !.latitude = event.latitude,
        !.tel = [f \in EnrichFields |-> EnrichField(location.tel[f], event.tel[f])],
        !.timestamp = EnrichTimestamp(location.timestamp, event.timestamp)]

\* The enrichment without its last telemetry field
enrich_location_from_event_without_address(location, event) ==
    [location EXCEPT
        !.tel = [f \in EnrichFields |->
                   IF f = "address" THEN location.tel[f]
                   ELSE EnrichField(location.tel[f], event.tel[f])],
        !.timestamp = EnrichTimestamp(location.timestamp, event.timestamp)]

\* _enrich_location_from_event(location, event): the location afterwards
\* (it is modified in place; the event is only read).
enrich_location_from_event(location, event) ==
    [location EXCEPT
        !.tel = [f \in EnrichFields |-> EnrichField(location.tel[f], event.tel[f])],
        !.timestamp = EnrichTimestamp(location.timestamp, event.timestamp)]

InitEnrich ==
    /\ \E b \in BaseLocations : \E e \in EventLocations :
          enrich = [stage |-> "args", base |-> b, location |-> b,
                    telemetry |-> e, event |-> e]
    /\ AuthParked
    /\ codec = NoCodec
    /\ transport = NoTransport
    /\ client = NoClient
    /\ payload = NoPayload
    /\ device = NoDevice
    /\ lifecycle = NoLifecycle

\* _enrich_location_from_event(location, event); base and telemetry keep
\* the two arguments as they were before the first call
Enrich ==
    /\ enrich.stage = "args"
    /\ enrich' = [enrich EXCEPT
                    !.stage = "once",
                    !.location = enrich_location_from_event(enrich.location,
                                                            enrich.event)]
    /\ UNCHANGED <<authVars, codec, transport, client, payload, device,
                   lifecycle>>

\* the same call once more, with the same event
EnrichAgain ==
    /\ enrich.stage = "once"
    /\ enrich' = [enrich EXCEPT
                    !.stage = "twice",
                    !.location = enrich_location_from_event(enrich.location,
                                                            enrich.event)]
    /\ UNCHANGED <<authVars, codec, transport, client, payload, device,
                   lifecycle>>

NextEnrich ==
    \/ Enrich
    \/ EnrichAgain

SpecEnrich == InitEnrich /\ [][NextEnrich]_vars

\* ------------------------------------------------------ Device (lojack_api)
\* One Device over a client whose answers are chosen freely: the cached
\* location, the time of the last refresh, and the operation in flight, cut
\* at its awaits.  calls lists the client calls the operation has issued.
DeviceOps == {"refresh", "get_location", "request_fresh_location"}

\* What get_current_location answers: no location, or a snapshot with or
\* without coordinates (a latitude of 0 is a latitude), with or without a
\* timestamp, and no telemetry.
SnapshotLocations ==
    {[latitude |-> lat, timestamp |-> ts, tel |-> Telemetry({}, 0)] :
        lat \in {None, Some(0)}, ts \in {None, Some(10)}}
Snapshots == {None} \cup {Some(l) : l \in SnapshotLocations}

\* What get_locations(limit=1) answers: no event or one, with all its
\* telemetry, older or newer than the snapshot.
LatestEvents ==
    {[latitude |-> Some(2), timestamp |-> ts, tel |-> Telemetry(EnrichFields, 7)] :
        ts \in {Some(5), Some(20)}}
EventLists == {<<>>} \cup {<<e>> : e \in LatestEvents}

\* The exceptions a client call raises
ClientFailures == {"ApiError", "ConnectionError"}

GetCurrentLocation == [fn |-> "get_current_location"]
GetLocations(n) == [fn |-> "get_locations", limit |-> n]
SendCommand(c) == [fn |-> "send_command", command |-> c]

NoDeviceCall ==
    [op |-> "none", force |-> FALSE, pc |-> "idle", calls |-> <<>>,
     location |-> None, events |-> <<>>, baseline |-> None,
     status |-> "none", value |-> None, error |-> None, swallowed |-> None]

\* Device.__init__
NewDevice ==
    [cached_location |-> None, last_refresh |-> None, clock |-> 0,
     before |-> [cached_location |-> None, last_refresh |-> None]]
      @@ NoDeviceCall

\* A refresh that fetches whatever is cached
NeedsFetchAlways(op, force, cached) == TRUE

\* Whether the operation goes to the client: refresh returns at once when
\* "not force and self._cached_location is not None"; get_location calls
\* refresh(force=force) when "force or self._cached_location is None".
NeedsFetch(op, force, cached) ==
    CASE op = "refresh" -> ~(~force /\ cached # None)
      [] op = "get_location" ->
            (force \/ cached = None) /\ ~(~force /\ cached # None)
      [] OTHER -> TRUE

\* The cache that takes the latest event whenever there is one
RefreshCacheEventFirst(location, events) ==
    IF events # <<>> THEN Some(Head(events)) ELSE location

\* The cache refresh stores, from the snapshot and the events fetched
RefreshCache(location, events) ==
    LET latest_event == IF events # <<>> THEN Some(Head(events)) ELSE None
    IN  IF location # None /\ Val(location).latitude # None
        THEN IF latest_event # None
             THEN Some(enrich_location_from_event(Val(location),
                                                  Val(latest_event)))
             ELSE location
        ELSE IF latest_event # None THEN latest_event ELSE None

\* request_fresh_location letting the command's exception through
CommandOutcomePropagating(baseline, failure) ==
    IF failure = None
    THEN [status |-> "returned", value |-> baseline, error |-> None]
    ELSE [status |-> "raised", value |-> None, error |-> failure]

\* "try: await self.send_command('locate') / except Exception: pass /
\* return baseline_timestamp"
CommandOutcome(baseline, failure) ==
    [status |-> "returned", value |-> baseline, error |-> None]

InitDevice ==
    /\ device = NewDevice
    /\ AuthParked
    /\ codec = NoCodec
    /\ transport = NoTransport
    /\ client = NoClient
    /\ payload = NoPayload
    /\ enrich = NoEnrich
    /\ lifecycle = NoLifecycle

DeviceFrame ==
    UNCHANGED <<authVars, codec, transport, client, payload, enrich, lifecycle>>

\* refresh(force=...), get_location(force=...) or request_fresh_location()
\* is called and runs to its first await or to its return
DeviceCall(op, force) ==
    /\ device.pc = "idle"
    /\ op = "request_fresh_location" => ~force
    /\ LET d == [device EXCEPT
                   !.op = op, !.force = force, !.calls = <<>>,
                   !.location = None, !.events = <<>>, !.baseline = None,
                   !.value = None, !.error = None, !.swallowed = None,
                   !.before = [cached_location |-> device.cached_location,
                               last_refresh |-> device.last_refresh]]
       IN  device' =
             IF NeedsFetch(op, force, device.cached_location)
             THEN [d EXCEPT !.pc = "current", !.status = "none"]
             ELSE [d EXCEPT !.status = "returned",
                            !.value = IF op = "get_location"
                                      THEN device.cached_location ELSE None]
    /\ DeviceFrame

\* "await self._client.get_current_location(self.id)" returns
CurrentLocationReturns(snapshot) ==
    /\ device.pc = "current"
    /\ device' =
         [device EXCEPT
            !.calls = Append(@, GetCurrentLocation),
            !.location = snapshot,
            !.baseline = IF snapshot # None THEN Val(snapshot).timestamp
                         ELSE None,
            !.pc = IF device.op = "request_fresh_location"
                   THEN "command" ELSE "locations"]
    /\ DeviceFrame

\* refresh that stores the snapshot as soon as it has it
ClientCallRaisesAfterCaching(failure) ==
    /\ device.pc \in {"current", "locations"}
    /\ device' =
         [device EXCEPT
            !.calls = Append(@, IF device.pc = "current"
                                THEN GetCurrentLocation ELSE GetLocations(1)),
            !.cached_location = IF device.pc = "locations"
                                THEN device.location ELSE @,
            !.pc = "idle", !.status = "raised", !.error = Some(failure)]
    /\ DeviceFrame

\* a client call of refresh or the first call of request_fresh_location
\* raises: the operation raises the same exception
ClientCallRaises(failure) ==
    /\ device.pc \in {"current", "locations"}
    /\ device' =
         [device EXCEPT
            !.calls = Append(@, IF device.pc = "current"
                                THEN GetCurrentLocation ELSE GetLocations(1)),
            !.pc = "idle", !.status = "raised", !.error = Some(failure)]
    /\ DeviceFrame

\* "await self._client.get_locations(self.id, limit=1)" returns and refresh
\* runs to its end; get_location then returns the cache
LocationsReturn(events) ==
    /\ device.pc = "locations"
    /\ LET cache == RefreshCache(device.location, events)
       IN  device' =
             [device EXCEPT
                !.calls = Append(@, GetLocations(1)),
                !.events = events,
                !.cached_location = cache,
                !.last_refresh = Some(device.clock),
                !.pc = "idle", !.status = "returned",
                !.value = IF device.op = "get_location" THEN cache ELSE None]
    /\ DeviceFrame

\* "await self.send_command('locate')" returns or raises, and
\* request_fresh_location returns
CommandReply(failure) ==
    /\ device.pc = "command"
    /\ LET out == CommandOutcome(device.baseline, failure)
       IN  device' =
             [device EXCEPT
                !.calls = Append(@, SendCommand("locate")),
                !.pc = "idle", !.status = out.status,
                !.value = out.value, !.error = out.error,
                !.swallowed = IF out.status = "returned" THEN failure
                              ELSE None]
    /\ DeviceFrame

\* datetime.now(timezone.utc) advances
DeviceTick ==
    /\ device.clock + TickStep <= MaxTime
    /\ device' = [device EXCEPT !.clock = @ + TickStep]
    /\ DeviceFrame

NextDevice ==
    \/ \E op \in DeviceOps : \E force \in BOOLEAN : DeviceCall(op, force)
    \/ \E snapshot \in Snapshots : CurrentLocationReturns(snapshot)
    \/ \E failure \in ClientFailures : ClientCallRaises(failure)
    \/ \E events \in EventLists : LocationsReturn(events)
    \/ \E failure \in Opt(ClientFailures) : CommandReply(failure)
    \/ DeviceTick

SpecDevice == InitDevice /\ [][NextDevice]_vars

\* ------------------------------------- Device commands (lojack_clients)
\* Device.ring(duration=...) and Device.lock(message=..., passcode=...) over
\* a client whose send_command returns or raises.  A passcode is a string
\* of at most MaxPasscode characters, one of each class: an ASCII letter,
\* an ASCII digit, a non-ASCII letter, an ASCII punctuation mark.  A
\* message is absent, a text that survives _sanitize_message, or one that
\* is sanitized to nothing.
MaxPasscode == 2
Durations == Opt({0 - 1, 0, 1, 150, 300, 301})
PasscodeChars == {"a", "7", "e_acute", "dash"}
Passcodes ==
    Opt(UNION {[1 .. n -> PasscodeChars] : n \in 0 .. MaxPasscode})
Messages == {"none", "text", "junk"}

\* _is_valid_passcode without the ASCII test
is_valid_passcode_any_alnum(passcode) ==
    \A i \in 1 .. Len(passcode) : passcode[i] \in {"a", "7", "e_acute"}

\* _is_valid_passcode: "all(c.isalnum() and ord(c) < 128 for c in passcode)"
is_valid_passcode(passcode) ==
    \A i \in 1 .. Len(passcode) :
        /\ passcode[i] \in {"a", "7", "e_acute"}
        /\ passcode[i] # "e_acute"

\* ring(): what it raises before sending, None if it sends
RingFailure(duration) ==
    IF duration # None /\ (Val(duration) < 1 \/ Val(duration) > 300)
    THEN Some("InvalidParameterError")
    ELSE None

\* lock(): what it raises before sending ("if passcode:" skips an empty one)
LockFailure(passcode) ==
    IF passcode # None /\ Len(Val(passcode)) > 0
         /\ ~is_valid_passcode(Val(passcode))
    THEN Some("InvalidParameterError")
    ELSE None

\* the command string ring() and lock() build
RingCommand(duration) ==
    IF duration # None THEN <<"ring", Val(duration)>> ELSE <<"ring">>
LockCommand(message) ==
    IF message = "text" THEN <<"lock", "text">> ELSE <<"lock">>

NoCommand ==
    [fn |-> "none", duration |-> None, message |-> "none", passcode |-> None,
     pc |-> "idle", calls |-> <<>>, status |-> "none", error |-> None]

InitCommand ==
    /\ device = NoCommand
    /\ AuthParked
    /\ codec = NoCodec
    /\ transport = NoTransport
    /\ client = NoClient
    /\ payload = NoPayload
    /\ enrich = NoEnrich
    /\ lifecycle = NoLifecycle

\* what a command method does up to its await, or to its raise
Command(d, failure, command) ==
    IF failure # None
    THEN [d EXCEPT !.status = "raised", !.error = failure]
    ELSE [d EXCEPT !.pc = "sending", !.calls = <<SendCommand(command)>>]

\* await device.ring(duration=duration)
Ring(duration) ==
    /\ device.fn = "none"
    /\ device' = Command([device EXCEPT !.fn = "ring", !.duration = duration],
                         RingFailure(duration), RingCommand(duration))
    /\ DeviceFrame

\* await device.lock(message=message, passcode=passcode)
Lock(message, passcode) ==
    /\ device.fn = "none"
    /\ device' = Command([device EXCEPT !.fn = "lock", !.message = message,
                                        !.passcode = passcode],
                         LockFailure(passcode), LockCommand(message))
    /\ DeviceFrame

\* "return await self.send_command(command)" returns or raises
CommandSent(failure) ==
    /\ device.pc = "sending"
    /\ device' = [device EXCEPT
                    !.pc = "idle",
                    !.status = IF failure = None THEN "returned" ELSE "raised",
                    !.error = failure]
    /\ DeviceFrame

NextCommand ==
    \/ \E duration \in Durations : Ring(duration)
    \/ \E message \in Messages : \E passcode \in Passcodes : Lock(message, passcode)
    \/ \E failure \in Opt({"CommandError"}) : CommandSent(failure)

SpecCommand == InitCommand /\ [][NextCommand]_vars

\* ------------------------------------------------------ LoJackClient.close
\* The client's _closed flag, the number of times close() was invoked on
\* each of its two transports, and the callers of close(), directly or by
\* leaving an "async with client" block, cut at close()'s two awaits.  What
\* a transport's close() does inside is not part of this model: it is an
\* await that returns or at which the caller is cancelled.
MaxCloses == 3
Callers == 1 .. NumTasks

NoCloseCall == [pc |-> "idle", via |-> "none", status |-> "none", error |-> None]

\* LoJackClient.__init__: "self._closed = False"
NewLifecycle ==
    [closed |-> FALSE, identity_closes |-> 0, services_closes |-> 0,
     started |-> 0, callers |-> [p \in Callers |-> NoCloseCall]]

InitLifecycle ==
    /\ lifecycle = NewLifecycle
    /\ AuthParked
    /\ codec = NoCodec
    /\ transport = NoTransport
    /\ client = NoClient
    /\ payload = NoPayload
    /\ enrich = NoEnrich
    /\ device = NoDevice

LifecycleFrame ==
    UNCHANGED <<authVars, codec, transport, client, payload, enrich, device>>

\* "async with client:" __aenter__ returns the client; the caller is in
\* the block
AEnter(p) ==
    /\ lifecycle.callers[p].pc = "idle"
    /\ lifecycle' = [lifecycle EXCEPT
                       !.callers[p] = [NoCloseCall EXCEPT !.pc = "body"]]
    /\ LifecycleFrame

\* close(), called directly or by __aexit__ on leaving the block: it
\* returns at once when _closed is set; otherwise it sets _closed and
\* awaits the identity transport's close()
CloseCall(p) ==
    /\ lifecycle.callers[p].pc \in {"idle", "body"}
    /\ lifecycle.started < MaxCloses
    /\ LET via == IF lifecycle.callers[p].pc = "body" THEN "__aexit__"
                  ELSE "close"
       IN  lifecycle' =
             IF lifecycle.closed
             THEN [lifecycle EXCEPT
                     !.started = @ + 1,
                     !.callers[p] = [pc |-> "idle", via |-> via,
                                     status |-> "returned", error |-> None]]
             ELSE [lifecycle EXCEPT
                     !.started = @ + 1,
                     !.closed = TRUE,
                     !.identity_closes = @ + 1,
                     !.callers[p] = [pc |-> "identity", via |-> via,
                                     status |-> "none", error |-> None]]
    /\ LifecycleFrame

\* "await self._identity_transport.close()" returns and close() awaits the
\* services transport's close()
IdentityClosed(p) ==
    /\ lifecycle.callers[p].pc = "identity"
    /\ lifecycle' = [lifecycle EXCEPT
                       !.services_closes = @ + 1,
                       !.callers[p].pc = "services"]
    /\ LifecycleFrame

\* "await self._services_transport.close()" returns and close() returns
ServicesClosed(p) ==
    /\ lifecycle.callers[p].pc = "services"
    /\ lifecycle' = [lifecycle EXCEPT
                       !.callers[p].pc = "idle",
                       !.callers[p].status = "returned"]
    /\ LifecycleFrame

\* the caller is cancelled while close() awaits a transport: CancelledError
\* leaves close() at that await
CloseCancelled(p) ==
    /\ lifecycle.callers[p].pc \in {"identity", "services"}
    /\ lifecycle' = [lifecycle EXCEPT
                       !.callers[p].pc = "idle",
                       !.callers[p].status = "raised",
                       !.callers[p].error = Some("CancelledError")]
    /\ LifecycleFrame

NextLifecycle ==
    \/ \E p \in Callers : AEnter(p)
    \/ \E p \in Callers : CloseCall(p)
    \/ \E p \in Callers : IdentityClosed(p)
    \/ \E p \in Callers : ServicesClosed(p)
    \/ \E p \in Callers : CloseCancelled(p)

SpecLifecycle == InitLifecycle /\ [][NextLifecycle]_vars

\* =================================================================== claims
\* The held token is valid for get_token(): no expiry known, or now earlier
\* than expires_at minus the refresh margin.
HeldValid ==
    /\ access_token # None
    /\ (expires_at = None \/ now < Val(expires_at) - DefaultRefreshMargin)

\* The held token is inside the refresh margin (or past its expiry).
HeldExpiring ==
    /\ access_token # None
    /\ expires_at # None
    /\ now >= Val(expires_at) - DefaultRefreshMargin

\* C1: a get_token() made while the held token is valid issues no transport
\* request, returns the held token and leaves the session as it was (so the
\* next call of the run finds the same token); a get_token() that starts
\* unauthenticated issues at most one request, the login.  Hence a run of
\* sequential calls over a token that stays valid issues at most one request
\* and every call returns the same token.
C1_CachedTokenNoRequest ==
    /\ [][\A p \in tasks :
            (CallGetToken(p) /\ HeldValid) =>
                /\ call'[p].posts = <<>>
                /\ call'[p].status = "returned"
                /\ call'[p].result = access_token
                /\ session' = session]_vars
    /\ [](\A p \in tasks :
            (call[p].op = "get_token" /\ call[p].via = "login") =>
                /\ Len(call[p].posts) <= 1
                /\ (call[p].status = "returned" => call[p].result = access_token))

\* C1 witness: a token obtained by login, with a known expiry, was handed
\* back from the cache.
C1_Witness ==
    /\ call[1].op = "get_token" /\ call[1].via = "cache"
    /\ call[1].status = "returned" /\ call[1].result = Some("t1")
    /\ expires_at # None

\* C2: whenever a token is held, an expiry is known and now >= expires_at -
\* margin, get_token() continues as refresh() does (it does not return from
\* the cache), and when it returns, it returns the token of the response its
\* refresh (or the refresh's fallback login) processed.
C2_RefreshInsideMargin ==
    /\ [][\A p \in tasks :
            (CallGetToken(p) /\ HeldExpiring) =>
                /\ call'[p].via = "refresh"
                /\ call'[p] = RefreshStart([NewCall("get_token") EXCEPT !.via = "refresh"],
                                           refresh_token, username, password)
                /\ call'[p].status # "returned"]_vars
    /\ [](\A p \in tasks :
            (call[p].op = "get_token" /\ call[p].via = "refresh"
                 /\ call[p].status = "returned") =>
                /\ call[p].posts # <<>>
                /\ call[p].resp.kind = "dict"
                /\ call[p].result = call[p].resp.token)

\* C2 witness: right after a login whose response gave expiresIn = 30, the
\* next get_token() went to refresh().
C2_Witness ==
    /\ call[1].op = "get_token" /\ call[1].via = "refresh"
    /\ access_token = Some("t1") /\ expires_at = Some(30) /\ now = 0

\* C3: a get_token() made while no token is held continues as login() does;
\* with credentials configured it issues exactly one POST, the login, and
\* when it returns, it returns the token of that response and the manager
\* holds that token.
C3_UnauthenticatedLogsIn ==
    /\ [][\A p \in tasks :
            (CallGetToken(p) /\ access_token = None) =>
                call'[p] = LoginStart([NewCall("get_token") EXCEPT !.via = "login"],
                                      username, password)]_vars
    /\ [](\A p \in tasks :
            (call[p].op = "get_token" /\ call[p].via = "login") =>
                /\ (~MissingCredentials(username, password)
                        => call[p].posts = <<"login">>)
                /\ (call[p].status = "returned" =>
                        /\ call[p].resp.kind = "dict"
                        /\ call[p].result = call[p].resp.token
                        /\ access_token = call[p].result))

\* C3 witness: a get_token() that started unauthenticated returned the
\* token of its login response.
C3_Witness ==
    /\ call[1].op = "get_token" /\ call[1].via = "login"
    /\ call[1].status = "returned" /\ call[1].posts = <<"login">>
    /\ access_token = Some("t1")

\* C4: is_authenticated is true iff a token is held and (no expiry is known
\* or now is strictly before expires_at).
C4_IsAuthenticated ==
    is_authenticated(access_token, expires_at, now)
        <=> (access_token # None /\ (expires_at = None \/ now < Val(expires_at)))

\* C4 witness: a token is held and now equals expires_at; is_authenticated
\* is false.
C4_Witness ==
    /\ access_token # None
    /\ expires_at = Some(now)
    /\ ~is_authenticated(access_token, expires_at, now)

\* C5: concurrent get_token() calls share one login/refresh round-trip: at
\* no time are two tasks suspended in a transport request of their own.
C5_SingleFlight ==
    Cardinality({p \in tasks : call[p].op = "get_token" /\ ~Idle(p)}) <= 1

\* The expiry a response carries: the relative one counted from now, else
\* the absolute one, else none.
DerivedExpiry(data, t) ==
    IF data.expires_in.t = "int" /\ data.expires_in.n # 0
    THEN Some(t + data.expires_in.n)
    ELSE IF data.expires_at.t \in {"int", "iso"} /\ data.expires_at.n # 0
    THEN Some(data.expires_at.n)
    ELSE None

\* C6: whenever login() or refresh() resumes from its await (and returns or
\* raises), or is cancelled there, the pair (access_token, expires_at) is
\* either the pair held before or the response's token together with the
\* expiry derived from that same response.
C6_PairNeverTorn ==
    [][\A p \in tasks :
         (\/ LoginResume(p, call'[p].resp)
          \/ RefreshResume(p, call'[p].resp)
          \/ Cancel(p)) =>
             \/ <<access_token', expires_at'>> = <<access_token, expires_at>>
             \/ <<access_token', expires_at'>> =
                    <<call'[p].resp.token, DerivedExpiry(call'[p].resp, now)>>]_vars

\* C7: when the refresh POST fails with AuthenticationError, refresh()
\* continues as login() does, the session untouched; when it fails with any
\* other error, refresh() raises AuthenticationError without a login POST,
\* the session untouched.  A call that fell back returns the token of the
\* login response.
C7_RefreshFailure ==
    /\ [][\A p \in tasks :
            RefreshResume(p, call'[p].resp) =>
                LET data == call'[p].resp
                IN  /\ data.kind = "AuthenticationError" =>
                          /\ call'[p] = LoginStart([call[p] EXCEPT !.resp = data],
                                                   username, password)
                          /\ session' = session
                    /\ data.kind = "OtherError" =>
                          /\ call'[p].status = "raised"
                          /\ call'[p].result = Some("AuthenticationError")
                          /\ call'[p].posts = call[p].posts
                          /\ session' = session]_vars
    /\ [](\A p \in tasks :
            (call[p].posts = <<"refresh", "login">> /\ call[p].status = "returned") =>
                /\ call[p].resp.kind = "dict"
                /\ call[p].result = call[p].resp.token)

\* C7 witness: a refresh POST answered with AuthenticationError, and the
\* fallback login POST in flight.
C7_Witness ==
    /\ call[1].posts = <<"refresh", "login">>
    /\ call[1].pc = "await_login"
    /\ call[1].resp.kind = "AuthenticationError"

\* C8: refresh() called while no refresh token is held continues exactly as
\* login() does from the same state, and never issues a refresh POST.
C8_RefreshWithoutRefreshToken ==
    /\ [][\A p \in tasks :
            (CallRefresh(p) /\ ~Truthy(refresh_token)) =>
                /\ call'[p] = [LoginStart(NewCall("login"), username, password)
                                  EXCEPT !.op = "refresh"]
                /\ session' = session]_vars
    /\ [](\A p \in tasks :
            (call[p].op = "refresh" /\ call[p].posts # <<>>
                 /\ call[p].posts[1] = "login") =>
                /\ call[p].posts = <<"login">>
                /\ (call[p].status = "returned" =>
                        /\ call[p].result = call[p].resp.token
                        /\ access_token = call[p].result))

\* C8 witness: a refresh() without a refresh token returned the token of a
\* login response.
C8_Witness ==
    /\ call[1].op = "refresh"
    /\ call[1].posts = <<"login">>
    /\ call[1].status = "returned"

\* The response carries an expiry, relative or absolute.
CarriesExpiry(data) == DerivedExpiry(data, 0) # None

\* C9: after a refresh POST that succeeds with a token, the session holds
\* that token, the expiry the response carries (relative or absolute), the
\* response's refresh token if it issued one and the previous one otherwise,
\* and the user id it held before.
C9_RefreshUpdatesSession ==
    [][\A p \in tasks :
         (RefreshResume(p, call'[p].resp)
              /\ RefreshDisposition(call'[p].resp) = "update") =>
             LET data == call'[p].resp
             IN  /\ access_token' = data.token
                 /\ (CarriesExpiry(data) => expires_at' = DerivedExpiry(data, now))
                 /\ refresh_token' = (IF data.refresh_token # None
                                      THEN data.refresh_token ELSE refresh_token)
                 /\ user_id' = user_id]_vars

\* A frame in which login() ran to its end (was not cancelled); its resp is
\* the login response.
LoginCompleted(c) ==
    /\ c.pc = "idle"
    /\ c.posts # <<>>
    /\ c.posts[Len(c.posts)] = "login"
    /\ c.status \in {"returned", "raised"}
    /\ c.result # Some("CancelledError")

RaisedAuthenticationError(c) ==
    c.status = "raised" /\ c.result = Some("AuthenticationError")

\* C10 as claimed: login() raises AuthenticationError when the transport
\* raised, when the response is no object, when it carries no token and
\* when it carries an error field; it returns a token only when none of
\* these holds.
C10_LoginFailsOnErrorField ==
    \A p \in tasks :
        LoginCompleted(call[p]) =>
            LET data == call[p].resp
                failure == data.kind # "dict" \/ data.token = None \/ data.error # None
            IN  /\ failure => RaisedAuthenticationError(call[p])
                /\ call[p].status = "returned" => ~failure

\* C10 as amended: login() raises AuthenticationError exactly when the
\* transport raised, the response is no object, or it carries no token,
\* whether or not it carries an error field; it returns a token, the
\* response's, only when none of these holds.
C10_LoginFailsWithoutToken ==
    \A p \in tasks :
        LoginCompleted(call[p]) =>
            LET data == call[p].resp
                failure == data.kind # "dict" \/ data.token = None
            IN  /\ failure <=> RaisedAuthenticationError(call[p])
                /\ call[p].status = "returned" =>
                      (~failure /\ call[p].result = data.token)

\* C10 witness: a login() whose response carried a token and an error field
\* returned the token.
C10_Witness ==
    /\ LoginCompleted(call[1])
    /\ call[1].op = "login"
    /\ call[1].resp.error # None
    /\ call[1].resp.token # None
    /\ call[1].status = "returned"

\* A frame whose call went on into login(): login() itself, a get_token()
\* without a token, or a refresh() (direct or from get_token()) that held no
\* refresh token or whose POST made it fall back.
ReachedLogin(c) ==
    \/ c.op = "login"
    \/ (c.op = "get_token" /\ c.via = "login")
    \/ /\ (c.op = "refresh" \/ (c.op = "get_token" /\ c.via = "refresh"))
       /\ c.pc = "idle"
       /\ \/ c.posts = <<>>
          \/ (c.resp # NoResponse /\ RefreshDisposition(c.resp) = "login")

\* C11: while the username or the password is absent or empty, no call ever
\* issues a login POST, and every call that reaches login() (directly, from
\* get_token(), or from refresh()'s fallback) ends raising
\* AuthenticationError, with no request beyond the refresh POST that led to
\* the fallback.
C11_MissingCredentialsRaise ==
    (~Truthy(username) \/ ~Truthy(password)) =>
        \A p \in tasks :
            /\ call[p].pc # "await_login"
            /\ \A i \in 1..Len(call[p].posts) : call[p].posts[i] # "login"
            /\ ReachedLogin(call[p]) =>
                  /\ RaisedAuthenticationError(call[p])
                  /\ Len(call[p].posts) <= 1

\* C11 witness: without a password, a get_token() whose refresh POST was
\* refused fell back to login() and raised.
C11_Witness ==
    /\ ~Truthy(password)
    /\ call[1].op = "get_token"
    /\ call[1].posts = <<"refresh">>
    /\ call[1].resp.kind = "AuthenticationError"
    /\ RaisedAuthenticationError(call[1])

\* C12: a login() that returns leaves a session made of the response alone:
\* its token, its refresh token, its user id and the expiry it carries, each
\* absent when the response does not give it.
C12_LoginReplacesSession ==
    [][\A p \in tasks :
         (LoginResume(p, call'[p].resp) /\ call'[p].status = "returned") =>
             LET data == call'[p].resp
             IN  /\ access_token' = data.token
                 /\ refresh_token' = data.refresh_token
                 /\ user_id' = data.user_id
                 /\ expires_at' = DerivedExpiry(data, now)]_vars

C14_DefaultLifetime ==
    [][\A p \in tasks :
         (LoginResume(p, call'[p].resp)
              /\ call'[p].resp.kind = "dict"
              /\ call'[p].resp.token # None
              /\ call'[p].resp.expires_in.t \in {"null", "str"}) =>
             /\ call'[p].status = "returned"
             /\ call'[p].result = call'[p].resp.token
             /\ expires_at' # None]_vars

C17_ExportIffAuthenticated ==
    (export_auth_artifacts(access_token, refresh_token, expires_at, user_id) = None)
        <=> ~is_authenticated(access_token, expires_at, now)

\* C18: clear() leaves the four session fields absent, is_authenticated
\* false and nothing to export; the get_token() that follows takes the login
\* branch, and a call on the login branch never issues a refresh POST.
C18_ClearUnauthenticates ==
    /\ [][\A p \in tasks :
            Clear(p) =>
                /\ session' = <<None, None, None, None>>
                /\ ~is_authenticated(access_token', expires_at', now')
                /\ export_auth_artifacts(access_token', refresh_token',
                                         expires_at', user_id') = None]_vars
    /\ [][\A p \in tasks :
            (CallGetToken(p) /\ call[p].op = "clear") =>
                /\ call'[p].via = "login"
                /\ call'[p].posts \in {<<>>, <<"login">>}]_vars
    /\ [](\A p \in tasks :
            (call[p].op = "get_token" /\ call[p].via = "login") =>
                call[p].posts \in {<<>>, <<"login">>})

\* C18 witness: clear() ran after time had passed, and the manager holds
\* credentials for the login that follows.
C18_Witness ==
    /\ call[1].op = "clear"
    /\ session = <<None, None, None, None>>
    /\ ~MissingCredentials(username, password)
    /\ now > 0
\* The value that came back from the dictionary, once from_dict() returned.
CameBack == Val(Val(codec.b).artifacts)

\* C16 as claimed: from_dict(a.to_dict()) has the same access_token,
\* refresh_token, user_id and expires_at as a, for every a; absent optional
\* fields are left out of the dictionary; an unparseable expires_at text
\* gives an absent expiry and no error.
C16_RoundTripEveryValue ==
    /\ (codec.a # None /\ codec.d # None) =>
          LET a == Val(codec.a)
              d == Val(codec.d)
          IN  /\ a.expires_at = None => d.expires_at = None
              /\ a.refresh_token = None => d.refresh_token = None
              /\ a.user_id = None => d.user_id = None
    /\ (codec.a # None /\ codec.b # None) =>
          /\ Val(codec.b).raises = None
          /\ CameBack = Val(codec.a)
    /\ (codec.b # None /\ Val(codec.d).expires_at = Some(JStr)
            /\ Val(codec.d).access_token # None) =>
          /\ Val(codec.b).raises = None
          /\ CameBack.expires_at = None

\* C16 as amended: the access_token and the expires_at come back as they
\* were, and so do a refresh_token and a user_id that are absent or
\* non-empty; an empty refresh_token or user_id is left out of the
\* dictionary like an absent one and comes back absent; an unparseable
\* expires_at text gives an absent expiry and no error.
C16_RoundTripNonEmpty ==
    /\ (codec.a # None /\ codec.d # None) =>
          LET a == Val(codec.a)
              d == Val(codec.d)
          IN  /\ a.expires_at = None => d.expires_at = None
              /\ ~Truthy(a.refresh_token) => d.refresh_token = None
              /\ ~Truthy(a.user_id) => d.user_id = None
    /\ (codec.a # None /\ codec.b # None) =>
          LET a == Val(codec.a)
          IN  /\ Val(codec.b).raises = None
              /\ CameBack.access_token = a.access_token
              /\ CameBack.expires_at = a.expires_at
              /\ CameBack.refresh_token =
                    (IF Truthy(a.refresh_token) THEN a.refresh_token ELSE None)
              /\ CameBack.user_id = (IF Truthy(a.user_id) THEN a.user_id ELSE None)
    /\ (codec.b # None /\ Val(codec.d).expires_at = Some(JStr)
            /\ Val(codec.d).access_token # None) =>
          /\ Val(codec.b).raises = None
          /\ CameBack.expires_at = None

\* C16 witness: a value with an expiry at the epoch, a refresh token and an
\* empty user id went through the dictionary; the expiry and the refresh
\* token came back, the user id came back absent.
C16_Witness ==
    /\ codec.a # None
    /\ codec.b # None
    /\ Val(codec.a).expires_at = Some(0)
    /\ Val(codec.a).refresh_token = Some("r0")
    /\ Val(codec.a).user_id = Some("")
    /\ CameBack.expires_at = Some(0)
    /\ CameBack.refresh_token = Some("r0")
    /\ CameBack.user_id = None
\* The error class the claim gives a status.
ClassifiedError(status) ==
    CASE status = 401 -> "AuthenticationError"
      [] status = 403 -> "AuthorizationError"
      [] OTHER -> "ApiError"

\* C19: a request() answered with a status outside 200..299 returns no
\* payload: it raises AuthenticationError for 401, AuthorizationError for
\* 403 and ApiError otherwise, the ApiError carrying the status and the raw
\* body.
C19_ClassifiedErrors ==
    LET x == transport.exchange
    IN  (x.outcome # "none" /\ x.status # 0 /\ ~(x.status \in 200..299)) =>
            /\ x.outcome = "raised"
            /\ x.error = Some(ClassifiedError(x.status))
            /\ ClassifiedError(x.status) = "ApiError" =>
                  /\ x.error_status = Some(x.status)
                  /\ x.error_body = Some(x.body)
\* The operation in hand asked get_token() for a token.
AskedForToken ==
    /\ client.op # "none"
    /\ ~(client.op = "get_repair_orders" /\ client.nothing)

\* C20: an operation issues a services request only after its get_token()
\* returned, and the request carries the token get_token() returned; it
\* issues no services request while get_token() is suspended or when
\* get_token() raised, in which case it ends with get_token()'s exception;
\* an operation that has something to send and whose get_token() returned
\* issues exactly one services request.
C20_TokenThenOneRequest ==
    \A p \in tasks :
        AskedForToken =>
            /\ call[p].op = "get_token"
            /\ Len(client.requests) <= 1
            /\ client.requests # <<>> =>
                  /\ call[p].status = "returned"
                  /\ client.requests[1] = call[p].result
            /\ call[p].pc # "idle" =>
                  (client.pc = "await_get_token" /\ client.requests = <<>>)
            /\ call[p].status = "raised" =>
                  /\ client.requests = <<>>
                  /\ client.status = "raised"
                  /\ client.error = call[p].result
            /\ (call[p].status = "returned" /\ ~client.nothing) =>
                  Len(client.requests) = 1

\* C20 witness: a get_device() whose get_token() refreshed the token sent
\* its one services request with the refreshed token and ended.
C20_Witness ==
    /\ client.op = "get_device"
    /\ client.pc = "idle"
    /\ call[1].posts = <<"refresh">>
    /\ call[1].status = "returned"
    /\ client.requests = <<Some("t2")>>
\* The client operation in hand ended on the reply to its services request.
Answered == client.pc = "idle" /\ client.reply.kind # "none"

\* C21: get_device answers an ApiError of status 404 by raising
\* DeviceNotFoundError with the device_id it was called with; get_geofence
\* and get_maintenance_schedule answer it by returning None and
\* get_repair_orders by returning an empty list; an ApiError of any other
\* status leaves each of the four as the ApiError it was, status included.
C21_NotFoundTranslated ==
    (Answered /\ client.reply.kind = "ApiError"
         /\ client.op \in {"get_device", "get_geofence",
                           "get_maintenance_schedule", "get_repair_orders"}) =>
        IF client.reply.status = 404
        THEN CASE client.op = "get_device" ->
                    /\ client.status = "raised"
                    /\ client.error = Some("DeviceNotFoundError")
                    /\ client.error_device = client.device_id
               [] client.op = "get_repair_orders" ->
                    client.status = "returned" /\ client.value = "[]"
               [] OTHER ->
                    client.status = "returned" /\ client.value = "None"
        ELSE /\ client.status = "raised"
             /\ client.error = Some("ApiError")
             /\ client.error_status = Some(client.reply.status)

\* C21 witness: get_device("d2") was answered with a 404 and raised
\* DeviceNotFoundError for d2.
C21_Witness ==
    /\ Answered
    /\ client.op = "get_device"
    /\ client.device_id = Some("d2")
    /\ client.reply = [kind |-> "ApiError", status |-> 404]
    /\ client.error_device = Some("d2")

\* C30: update_asset and update_geofence called without a field return True
\* and get_repair_orders called without vin and asset_id returns an empty
\* list, and none of them issues a services request.
C30_NothingToSend ==
    (client.op # "none" /\ client.nothing) =>
        /\ client.requests = <<>>
        /\ client.pc \in {"idle", "await_get_token"}
        /\ client.reply.kind = "none"
        /\ (client.pc = "idle" /\ client.status = "returned") =>
              client.value = (IF client.op = "get_repair_orders" THEN "[]" ELSE "True")
        /\ (client.pc = "idle" /\ client.op = "get_repair_orders") =>
              client.status = "returned"

\* C30 witness: an update_geofence() without a field returned True after its
\* get_token() had logged in.
C30_Witness ==
    /\ client.op = "update_geofence"
    /\ client.nothing
    /\ client.pc = "idle"
    /\ client.status = "returned"
    /\ client.value = "True"
    /\ call[1].posts = <<"login">>
\* The item is a vehicle by the claim's rule: a VIN at the top level or
\* under attributes, or the type marker "vehicle".
IsVehicleItem(item) ==
    \/ Truthy(item.vin)
    \/ item.attributes = "object_with_vin"
    \/ item.type = "vehicle"

\* C22: list_devices and get_device (and the list_devices of
\* lojack_clients) wrap an item as a Vehicle exactly when it has a VIN at the
\* top level or under attributes or its type marker says vehicle, and as a
\* Device otherwise; list_devices and get_device wrap the same item alike.
C22_VehicleIffVinOrMarker ==
    LET expected == IF IsVehicleItem(payload.item) THEN "Vehicle" ELSE "Device"
    IN  /\ payload.listed # "-" => payload.listed = expected
        /\ payload.got # "-" => payload.got = expected
        /\ payload.legacy # "-" => payload.legacy = expected
        /\ (payload.listed # "-" /\ payload.got # "-") =>
              payload.listed = payload.got
\* The enrichment ran once.
Enriched == enrich.stage = "once"

\* C23: after the enrichment every field of the location that was present
\* before (a telemetry field, the latitude, the timestamp) holds the value
\* it had, except the timestamp when the event's timestamp is strictly later
\* than the location's was.
C23_PresentFieldsKept ==
    Enriched =>
        /\ \A f \in EnrichFields :
              enrich.base.tel[f] # None =>
                  enrich.location.tel[f] = enrich.base.tel[f]
        /\ enrich.base.latitude # None =>
              enrich.location.latitude = enrich.base.latitude
        /\ (enrich.base.timestamp # None
                /\ enrich.location.timestamp # enrich.base.timestamp) =>
              /\ enrich.telemetry.timestamp # None
              /\ Val(enrich.telemetry.timestamp) > Val(enrich.base.timestamp)

\* C23 witness: a location with every telemetry field present (and falsy), a
\* timestamp of 10 and an event with every field present and a timestamp of
\* 20 were merged; the telemetry stayed and the timestamp moved.
C23_Witness ==
    /\ Enriched
    /\ enrich.base.tel = Telemetry(EnrichFields, 0)
    /\ enrich.telemetry.tel = Telemetry(EnrichFields, 7)
    /\ enrich.base.timestamp = Some(10)
    /\ enrich.location.timestamp = Some(20)
    /\ enrich.location.tel = enrich.base.tel

\* C24: after the enrichment each of the eleven telemetry fields holds the
\* location's previous value when that was present and the event's value
\* otherwise; a snapshot without telemetry thus shows the event's speed,
\* battery voltage, signal strength and GPS fix quality.
C24_AbsentFieldsFilled ==
    Enriched =>
        /\ \A f \in EnrichFields :
              enrich.location.tel[f] =
                  (IF enrich.base.tel[f] # None
                   THEN enrich.base.tel[f] ELSE enrich.telemetry.tel[f])
        /\ enrich.base.tel = Telemetry({}, 0) =>
              \A f \in {"speed", "battery_voltage", "signal_strength",
                        "gps_fix_quality"} :
                  enrich.location.tel[f] = enrich.telemetry.tel[f]

\* C24 witness: a snapshot without telemetry was merged with an event that
\* has all of it, and shows the event's telemetry.
C24_Witness ==
    /\ Enriched
    /\ enrich.base.tel = Telemetry({}, 0)
    /\ enrich.location.tel = Telemetry(EnrichFields, 7)

\* The later of two optional timestamps.
Later(a, b) ==
    CASE a = None -> b
      [] b = None -> a
      [] OTHER -> IF Val(a) >= Val(b) THEN a ELSE b

\* C25: after the enrichment the location's timestamp is the event's when
\* the event has one and the location had none or an earlier one, and is
\* what it was otherwise; so it is the later of the two whenever one exists
\* and never earlier than it was.
C25_LaterTimestamp ==
    Enriched =>
        LET b == enrich.base.timestamp
            e == enrich.telemetry.timestamp
            r == enrich.location.timestamp
        IN  /\ r = (IF e # None /\ (b = None \/ Val(e) > Val(b)) THEN e ELSE b)
            /\ r = Later(b, e)
            /\ (b # None) => (r # None /\ Val(r) >= Val(b))

\* C25 witness: the location's timestamp was 20 and the event's 10, and the
\* location kept 20.
C25_Witness ==
    /\ Enriched
    /\ enrich.base.timestamp = Some(20)
    /\ enrich.telemetry.timestamp = Some(10)
    /\ enrich.location.timestamp = Some(20)
\* C26: when refresh gets its answer from get_locations, the client calls
\* it issued are get_current_location and then get_locations(limit=1), once
\* each; the cache is the snapshot enriched from the latest event (or the
\* snapshot as it is when there is no event) if the snapshot exists and has
\* a latitude, else the latest event if there is one, else None; and
\* last_refresh is the current time.
C26_RefreshCaches ==
    [][(device.pc = "locations" /\ device'.status = "returned") =>
          LET snapshot == device'.location
              events == device'.events
          IN  /\ device'.calls = <<GetCurrentLocation, GetLocations(1)>>
              /\ device'.cached_location =
                   (CASE snapshot # None /\ Val(snapshot).latitude # None ->
                           (IF Len(events) > 0
                            THEN Some(enrich_location_from_event(
                                         Val(snapshot), events[1]))
                            ELSE snapshot)
                      [] OTHER ->
                           (IF Len(events) > 0 THEN Some(events[1]) ELSE None))
              /\ device'.last_refresh = Some(device.clock)]_vars

\* C26 witness: a refresh at a time after 0 fetched a snapshot with a
\* latitude and an event, and cached the snapshot with the event's
\* telemetry.
C26_Witness ==
    /\ device.op = "refresh"
    /\ device.status = "returned"
    /\ Len(device.calls) = 2
    /\ device.location # None
    /\ Val(device.location).latitude # None
    /\ Len(device.events) = 1
    /\ device.cached_location # None
    /\ Val(device.cached_location).latitude = Val(device.location).latitude
    /\ Val(device.cached_location).tel = device.events[1].tel
    /\ device.last_refresh = Some(device.clock)
    /\ device.clock > 0

\* C27: refresh and get_location called without force while a location is
\* cached return without a client call and leave cached_location and
\* last_refresh as they were (get_location returning the cached location);
\* called with force they go to the client whatever is cached, and a
\* get_location that fetched returns the location it has just cached.
C27_CacheSkipsFetch ==
    [][/\ \A op \in {"refresh", "get_location"} : \A force \in BOOLEAN :
            DeviceCall(op, force) =>
              /\ (~force /\ device.cached_location # None) =>
                    /\ device'.pc = "idle"
                    /\ device'.status = "returned"
                    /\ device'.calls = <<>>
                    /\ device'.cached_location = device.cached_location
                    /\ device'.last_refresh = device.last_refresh
                    /\ op = "get_location" =>
                          device'.value = device.cached_location
              /\ force => device'.pc = "current"
       /\ (device.op = "get_location" /\ device.pc = "locations"
              /\ device'.status = "returned") =>
            device'.value = device'.cached_location]_vars

\* C27 witness: get_location without force returned the cached location
\* without a client call, some time after the refresh that cached it.
C27_Witness ==
    /\ device.op = "get_location"
    /\ ~device.force
    /\ device.status = "returned"
    /\ device.calls = <<>>
    /\ device.cached_location # None
    /\ device.value = device.cached_location
    /\ device.last_refresh # None
    /\ device.clock > Val(device.last_refresh)

\* C28: request_fresh_location, once get_current_location has answered,
\* sends 'locate' once and returns the answer's timestamp (None when there
\* is no current location) whether the command returns or raises; and the
\* cached location stays what it was throughout the operation.
C28_BaselineThenLocate ==
    [][/\ (device.pc = "command" /\ device'.pc = "idle") =>
            /\ device'.calls = <<GetCurrentLocation, SendCommand("locate")>>
            /\ device'.status = "returned"
            /\ device'.value = (IF device.location # None
                                THEN Val(device.location).timestamp ELSE None)
       /\ device'.op = "request_fresh_location" =>
            device'.cached_location = device.cached_location]_vars

\* C28 witness: with a location cached, the locate command raised and
\* request_fresh_location returned the snapshot's timestamp.
C28_Witness ==
    /\ device.op = "request_fresh_location"
    /\ device.status = "returned"
    /\ device.swallowed # None
    /\ device.value = Some(10)
    /\ device.cached_location # None
    /\ device.cached_location = device.before.cached_location
\* C29: close() is idempotent: no transport's close() is invoked twice; the
\* client is marked closed once a close() has been called; a close() called
\* on a closed client returns; and once a close() has returned and none is
\* in progress, each transport's close() has been invoked exactly once.
C29_CloseIdempotent ==
    /\ lifecycle.identity_closes <= 1
    /\ lifecycle.services_closes <= 1
    /\ lifecycle.started > 0 => lifecycle.closed
    /\ (/\ \E p \in Callers : lifecycle.callers[p].status = "returned"
        /\ \A p \in Callers : lifecycle.callers[p].pc \in {"idle", "body"}) =>
          /\ lifecycle.identity_closes = 1
          /\ lifecycle.services_closes = 1
\* C31: while a login() or refresh() is in progress, and in the step in
\* which it raises AuthenticationError, the session (access_token,
\* refresh_token, expires_at, user_id) does not change; so a call that
\* raises AuthenticationError leaves the session as it was before the call.
C31_FailedCallKeepsSession ==
    [][\A p \in tasks :
          (/\ call'[p].op \in {"login", "refresh"}
           /\ \/ call'[p].pc # "idle"
              \/ /\ call'[p].status = "raised"
                 /\ call'[p].result = Some("AuthenticationError")) =>
            session' = session]_vars

\* C31 witness: a refresh() on a session with a token and a refresh token
\* posted, fell back to login(), and the login failed.
C31_Witness ==
    /\ call[1].op = "refresh"
    /\ call[1].posts = <<"refresh", "login">>
    /\ call[1].status = "raised"
    /\ call[1].result = Some("AuthenticationError")
    /\ access_token = Some("t0")
    /\ refresh_token = Some("r0")

\* C32: a get_token() issues no request, one login POST, one refresh POST,
\* or a refresh POST followed by one login POST; it returns a token or
\* raises AuthenticationError (a cancelled caller aside); and a login()
\* issues at most its one login POST.
C32_TwoRequestsThenTokenOrAuthError ==
    \A p \in tasks :
        /\ call[p].op = "get_token" =>
              /\ call[p].posts \in {<<>>, <<"login">>, <<"refresh">>,
                                    <<"refresh", "login">>}
              /\ call[p].status = "returned" => Truthy(call[p].result)
              /\ (call[p].status = "raised"
                    /\ call[p].result # Some("CancelledError")) =>
                    call[p].result = Some("AuthenticationError")
        /\ call[p].op = "login" => call[p].posts \in {<<>>, <<"login">>}

\* C33: in the step in which a get_token() that went through refresh()
\* returns, the session it leaves is one on which a get_token() at the same
\* instant returns the cached token without a request.
C33_NoRefreshStorm ==
    [][\A p \in tasks :
          (/\ call[p].pc # "idle"
           /\ call'[p].op = "get_token"
           /\ call'[p].via = "refresh"
           /\ call'[p].status = "returned") =>
            LET next == GetTokenStart(NewCall("get_token"), access_token',
                                      refresh_token', expires_at', now',
                                      username', password')
            IN  /\ next.via = "cache"
                /\ next.posts = <<>>
                /\ next.status = "returned"
                /\ next.result = access_token']_vars

\* C34: when the refresh POST answers with something that is no object, or
\* with an object without a token, refresh() goes on into login(): it is
\* then awaiting the login POST (or has raised login()'s error for missing
\* credentials), it has not returned, and the session is as it was.
C34_BadRefreshResponseFallsBack ==
    [][\A p \in tasks : \A data \in RefreshResponses :
          (/\ RefreshResume(p, data)
           /\ data.kind \in {"text", "dict"}
           /\ ~Truthy(data.token)) =>
            /\ session' = session
            /\ call'[p].status # "returned"
            /\ IF Truthy(username) /\ Truthy(password)
               THEN /\ call'[p].pc = "await_login"
                    /\ call'[p].posts = Append(call[p].posts, "login")
               ELSE /\ call'[p].status = "raised"
                    /\ call'[p].result = Some("AuthenticationError")
                    /\ call'[p].posts = call[p].posts]_vars

\* C34 witness: a refresh() whose POST was answered with a non-object body
\* is awaiting the login POST.
C34_Witness ==
    /\ call[1].op = "refresh"
    /\ call[1].pc = "await_login"
    /\ call[1].posts = <<"refresh", "login">>
    /\ call[1].resp.kind = "text"
    /\ access_token = Some("t0")
\* The positions of the object entries of a list, in order.
ObjectPositions(entries) ==
    SelectSeq([i \in 1 .. Len(entries) |-> i], LAMBDA i : entries[i].object)

\* C35: list_devices() on a reply that holds a list returns, and returns
\* one wrapper per object entry of the list, in the list's order, whatever
\* the entries are.
C35_OneWrapperPerObject ==
    (payload.fn = "list_devices" /\ payload.status # "none"
        /\ payload.shape # "text") =>
      /\ payload.status = "returned"
      /\ [k \in 1 .. Len(payload.devices) |-> payload.devices[k].of]
           = ObjectPositions(payload.entries)
\* C36: get_current_location returns None after an ApiError, for a reply
\* that is no object and for an object without a lastLocation; otherwise it
\* returns the parsed lastLocation, with the asset's locationLastReported
\* as its timestamp only when the parsed one is absent, and the asset's
\* speed as its speed only when the parsed one is absent (an asset speed
\* that is no number leaves it absent); an AuthenticationError, from
\* get_token() or from the request, is raised to the caller.
C36_CurrentLocation ==
    (payload.fn = "get_current_location" /\ payload.status # "none") =>
        LET reply == payload.reply
            answered == reply.kind = "dict" /\ reply.last_location = "object"
        IN  /\ (\/ reply.kind \in {"ApiError", "text"}
                \/ reply.kind = "dict" /\ reply.last_location # "object") =>
                  /\ payload.status = "returned"
                  /\ payload.value = None
            /\ reply.kind \in {"AuthenticationError", "TokenError"} =>
                  /\ payload.status = "raised"
                  /\ payload.error = Some("AuthenticationError")
            /\ answered =>
                  /\ payload.status = "returned"
                  /\ payload.value # None
            /\ (answered /\ reply.parsed.timestamp # None) =>
                  Val(payload.value).timestamp = reply.parsed.timestamp
            /\ (answered /\ reply.parsed.timestamp = None) =>
                  Val(payload.value).timestamp =
                     (IF reply.reported = JIso(20) THEN Some(20) ELSE None)
            /\ (answered /\ reply.parsed.speed # None) =>
                  Val(payload.value).speed = reply.parsed.speed
            /\ (answered /\ reply.parsed.speed = None) =>
                  Val(payload.value).speed =
                     (CASE reply.speed = JInt(0) -> Some(0)
                        [] reply.speed \in {JInt(7), JNumStr(7)} -> Some(7)
                        [] OTHER -> None)

\* C36 witness: the parsed lastLocation had a speed of 0 and no timestamp,
\* the asset a speed of 7 and a locationLastReported of 20; the location
\* returned has the speed 0 and the timestamp 20.
C36_Witness ==
    /\ payload.fn = "get_current_location"
    /\ payload.status = "returned"
    /\ payload.reply.kind = "dict"
    /\ payload.reply.parsed = [timestamp |-> None, speed |-> Some(0)]
    /\ payload.reply.speed = JInt(7)
    /\ payload.reply.reported = JIso(20)
    /\ payload.value = Some([timestamp |-> Some(20), speed |-> Some(0)])
\* C37: while a refresh (called directly or by get_location) is at one of
\* its two fetches, and after it has raised the exception of a fetch,
\* cached_location and last_refresh are what they were before the call.
C37_FailedRefreshKeepsCache ==
    (/\ device.op \in {"refresh", "get_location"}
     /\ device.pc # "idle" \/ device.status = "raised") =>
        /\ device.cached_location = device.before.cached_location
        /\ device.last_refresh = device.before.last_refresh
        /\ device.status = "raised" =>
              /\ device.error \in {Some(f) : f \in ClientFailures}
              /\ device.calls \in {<<GetCurrentLocation>>,
                                   <<GetCurrentLocation, GetLocations(1)>>}

\* C37 witness: a forced refresh of a device with a cached location fetched
\* another snapshot, get_locations raised, and the cache is the old one.
C37_Witness ==
    /\ device.op = "refresh"
    /\ device.status = "raised"
    /\ device.calls = <<GetCurrentLocation, GetLocations(1)>>
    /\ device.location # None
    /\ Val(device.location).latitude # None
    /\ device.cached_location # None
    /\ device.cached_location # device.location
    /\ device.cached_location = device.before.cached_location
    /\ device.last_refresh = device.before.last_refresh

\* C38: applying the enrichment a second time with the same event changes
\* nothing; the latitude (which stands for the coordinates and the other
\* fields the function does not assign) is never changed; and the event is
\* as it was.
C38_EnrichIdempotent ==
    enrich.stage \in {"once", "twice"} =>
        /\ enrich.location.latitude = enrich.base.latitude
        /\ enrich.event = enrich.telemetry
        /\ enrich.stage = "twice" =>
              enrich.location =
                 enrich_location_from_event(enrich.base, enrich.telemetry)

\* C38 witness: the enrichment ran twice on a location that the first run
\* changed.
C38_Witness ==
    /\ enrich.stage = "twice"
    /\ enrich.location # enrich.base
    /\ enrich.base.tel = Telemetry({"speed"}, 0)
    /\ enrich.location.tel["heading"] = Some(7)
    /\ enrich.location.timestamp = Some(20)
    /\ enrich.base.timestamp = Some(10)
\* C39: a ring with a duration below 1 or above 300, and a lock with a
\* passcode holding a character that is no ASCII letter or digit, raise
\* InvalidParameterError without a send_command call; every other ring or
\* lock issues exactly one send_command call.
C39_ValidatedBeforeSending ==
    device.fn \in {"ring", "lock"} =>
        LET invalid ==
              \/ /\ device.fn = "ring"
                 /\ device.duration \in {Some(0 - 1), Some(0), Some(301)}
              \/ /\ device.fn = "lock"
                 /\ device.passcode # None
                 /\ \E i \in 1 .. Len(Val(device.passcode)) :
                       Val(device.passcode)[i] \in {"e_acute", "dash"}
        IN  /\ invalid =>
                /\ device.status = "raised"
                /\ device.error = Some("InvalidParameterError")
                /\ device.calls = <<>>
            /\ ~invalid =>
                /\ Len(device.calls) = 1
                /\ device.calls[1].fn = "send_command"
                /\ device.error # Some("InvalidParameterError")

\* C39 witness: a lock whose passcode is an ASCII letter followed by a
\* non-ASCII letter raised without sending.
C39_Witness ==
    /\ device.fn = "lock"
    /\ device.passcode = Some(<<"a", "e_acute">>)
    /\ device.status = "raised"
    /\ device.error = Some("InvalidParameterError")
    /\ device.calls = <<>>
====
